---- MODULE Spec2Model ----
(***************************************************************************)
(* SuriBrows: the address-field state machine (src/src/urlbar.rs) and the  *)
(* input resolution it performs on submit.                                 *)
(*                                                                         *)
(* A character is its Unicode scalar value (a natural number); a string is *)
(* a sequence of characters.  Rust strings are UTF-8, so every offset the  *)
(* code keeps (the cursor) is a BYTE offset; byte lengths are computed     *)
(* from the scalar values exactly as char::len_utf8 does.                  *)
(***************************************************************************)
EXTENDS Integers, Sequences, FiniteSets, TLC

\* ------------------------------------------------------------------------
\* Bounds of the exploration
\* ------------------------------------------------------------------------

\* Character-level edits (insert_char, one-character backspace/delete) are
\* explored on texts of at most MaxLen characters.
MaxLen == 3

\* Input resolution is explored on every typed text of at most MaxInput
\* characters.
MaxInput == 4

\* The display form is explored on URLs whose path-and-query part was
\* written with at most MaxPath characters.
MaxPath == 2

\* The glyph sizes of a font repeat with a period of FontPeriod characters.
FontPeriod == 3

\* draw is explored on display texts of at most MaxDrawText characters.
MaxDrawText == 2

\* ------------------------------------------------------------------------
\* Characters
\* ------------------------------------------------------------------------
\* The characters the model names, by scalar value.
Ch == [tab |-> 9, space |-> 32, hash |-> 35, percent |-> 37, plus |-> 43,
       hyphen |-> 45, dot |-> 46, slash |-> 47, colon |-> 58, qmark |-> 63,
       a |-> 97, eacute |-> 233, zwsp |-> 8203,
       A |-> 65, L |-> 76, R |-> 82, l |-> 108, r |-> 114]

\* The characters the keyboard handler feeds to insert_char in the model:
\* a letter, '.', a space, a tab and a two-byte character.
InputChars == {Ch.a, Ch.dot, Ch.space, Ch.tab, Ch.eacute}

\* The characters of the texts input resolution is explored on: the same,
\* with the URL delimiters ':' and '?'.
ResolveChars == InputChars \cup {Ch.colon, Ch.qmark}

\* The characters of the path and query of the URLs the display form is
\* explored on: the query delimiter and a zero-width space.
DisplayChars == {Ch.qmark, Ch.zwsp}

\* ------------------------------------------------------------------------
\* Small helpers on sequences
\* ------------------------------------------------------------------------
Range(s) == {s[i] : i \in 1..Len(s)}

Contains(s, c) == c \in Range(s)

StartsWith(s, p) == Len(p) <= Len(s) /\ SubSeq(s, 1, Len(p)) = p

Drop(s, n) == SubSeq(s, n + 1, Len(s))

Take(s, n) == SubSeq(s, 1, n)

\* Index of the first element of s that lies in set D, or Len(s)+1.
FirstIn(s, D) ==
    LET hits == {i \in 1..Len(s) : s[i] \in D}
    IN  IF hits = {} THEN Len(s) + 1
        ELSE CHOOSE i \in hits : \A j \in hits : i <= j

RECURSIVE Flatten(_)
Flatten(ss) == IF ss = <<>> THEN <<>> ELSE Head(ss) \o Flatten(Tail(ss))

\* ------------------------------------------------------------------------
\* UTF-8
\* ------------------------------------------------------------------------
len_utf8(c) ==
    IF c < 128 THEN 1
    ELSE IF c < 2048 THEN 2
    ELSE IF c < 65536 THEN 3
    ELSE 4

\* The UTF-8 bytes of one scalar value.
Utf8Char(c) ==
    IF c < 128 THEN <<c>>
    ELSE IF c < 2048 THEN <<192 + (c \div 64), 128 + (c % 64)>>
    ELSE IF c < 65536 THEN
        <<224 + (c \div 4096), 128 + ((c \div 64) % 64), 128 + (c % 64)>>
    ELSE <<240 + (c \div 262144), 128 + ((c \div 4096) % 64),
           128 + ((c \div 64) % 64), 128 + (c % 64)>>

Utf8(s) == Flatten([i \in 1..Len(s) |-> Utf8Char(s[i])])

\* str::len(): the length in bytes.
RECURSIVE ByteLen(_)
ByteLen(s) == IF s = <<>> THEN 0 ELSE len_utf8(Head(s)) + ByteLen(Tail(s))

\* Byte offset at which character number k+1 starts (k characters precede).
OffsetOf(s, k) == ByteLen(Take(s, k))

\* str::is_char_boundary(b)
is_char_boundary(s, b) == \E k \in 0..Len(s) : OffsetOf(s, k) = b

\* Number of whole characters of s that end at or before byte offset b:
\* s[..b].chars().count() when b is a character boundary.
CharsBefore(s, b) == Cardinality({k \in 1..Len(s) : OffsetOf(s, k) <= b})

\* ------------------------------------------------------------------------
\* Character classes
\* ------------------------------------------------------------------------
IsDigit(c) == c >= 48 /\ c <= 57

IsAlpha(c) == (c >= 65 /\ c <= 90) \/ (c >= 97 /\ c <= 122)

IsAlnum(c) == IsAlpha(c) \/ IsDigit(c)

ToLower(c) == IF c >= 65 /\ c <= 90 THEN c + 32 ELSE c

Lower(s) == [i \in 1..Len(s) |-> ToLower(s[i])]

\* char::is_whitespace (the Unicode White_Space property), as str::trim uses.
IsWhitespace(c) ==
    \/ c \in 9..13
    \/ c \in {32, 133, 160, 5760, 8232, 8233, 8239, 8287, 12288}
    \/ c \in 8192..8202

\* str::trim(): whitespace removed at both ends.
RECURSIVE TrimStart(_)
TrimStart(s) ==
    IF s # <<>> /\ IsWhitespace(Head(s)) THEN TrimStart(Tail(s)) ELSE s

RECURSIVE TrimEnd(_)
TrimEnd(s) ==
    IF s # <<>> /\ IsWhitespace(s[Len(s)]) THEN TrimEnd(Take(s, Len(s) - 1))
    ELSE s

\* Variant: the input is not trimmed at all.
NoTrim(s) == s

Trim(s) == TrimEnd(TrimStart(s))

\* Uppercase hexadecimal digit of a nibble.
HexDigit(n) == IF n < 10 THEN 48 + n ELSE 55 + n

\* %XX of one byte.
PercentByte(b) == <<Ch.percent, HexDigit(b \div 16), HexDigit(b % 16)>>

\* Value of an uppercase or lowercase hexadecimal digit.
HexValue(c) == IF IsDigit(c) THEN c - 48 ELSE ToLower(c) - 87

\* ------------------------------------------------------------------------
\* String literals of the program
\* ------------------------------------------------------------------------
S_http == <<104, 116, 116, 112>>

S_https == <<104, 116, 116, 112, 115>>

\* "https://" of format!("https://{input}")
S_https_prefix == <<104, 116, 116, 112, 115, 58, 47, 47>>

\* "xn--", the IDN ASCII-compatible-encoding prefix
S_xn == <<120, 110, 45, 45>>

\* const DUCKDUCKGO_SEARCH = "https://duckduckgo.com/?q="
DUCKDUCKGO_SEARCH ==
    <<104, 116, 116, 112, 115, 58, 47, 47, 100, 117, 99, 107,
      100, 117, 99, 107, 103, 111, 46, 99, 111, 109, 47, 63, 113, 61>>

\* The search engine_url another configuration gives (config.rs test value).
GOOGLE_SEARCH ==
    <<104, 116, 116, 112, 115, 58, 47, 47, 103, 111, 111, 103, 108, 101, 46, 99, 111, 109, 47, 63, 113, 61>>

\* The warning marker U+26A0 U+FE0F and two spaces; " (Punycode)".
S_warning == <<9888, 65039, 32, 32>>

S_punycode_label == <<32, 40, 80, 117, 110, 121, 99, 111, 100, 101, 41>>

\* ------------------------------------------------------------------------
\* Url (the url crate's type, as the program uses it)
\*
\* A Url is a record [scheme, host, port, tail]: tail is the serialized
\* path with its optional "?query".  Option<Url> and Result<Url, _> are
\* sequences: <<>> is None / Err, <<u>> is Some(u) / Ok(u).
\* ------------------------------------------------------------------------
None == <<>>

Some(u) == <<u>>

\* Url::as_str() / Display: the serialization.
as_str(u) ==
    IF u.host = <<>> THEN u.scheme \o <<Ch.colon>> \o u.tail
    ELSE u.scheme \o <<Ch.colon, Ch.slash, Ch.slash>> \o u.host
         \o (IF u.port = <<>> THEN <<>> ELSE <<Ch.colon>> \o u.port) \o u.tail

\* Url::host_str().unwrap_or("")
host_str(u) == u.host

\* --- Punycode (RFC 3492), used by the host parser for non-ASCII labels ---
Puny == [base |-> 36, tmin |-> 1, tmax |-> 26, skew |-> 38, damp |-> 700,
         initial_bias |-> 72, initial_n |-> 128]

PunyDigit(d) == IF d < 26 THEN 97 + d ELSE 22 + d

PunyT(k, bias) ==
    IF k <= bias THEN Puny.tmin
    ELSE IF k >= bias + Puny.tmax THEN Puny.tmax
    ELSE k - bias

RECURSIVE PunyVarInt(_, _, _)
PunyVarInt(q, k, bias) ==
    LET t == PunyT(k, bias)
    IN  IF q < t THEN <<PunyDigit(q)>>
        ELSE <<PunyDigit(t + ((q - t) % (Puny.base - t)))>>
             \o PunyVarInt((q - t) \div (Puny.base - t), k + Puny.base, bias)

RECURSIVE PunyAdaptLoop(_, _)
PunyAdaptLoop(delta, k) ==
    IF delta > ((Puny.base - Puny.tmin) * Puny.tmax) \div 2
    THEN PunyAdaptLoop(delta \div (Puny.base - Puny.tmin), k + Puny.base)
    ELSE k + (((Puny.base - Puny.tmin + 1) * delta) \div (delta + Puny.skew))

PunyAdapt(delta, numpoints, first) ==
    LET d1 == IF first THEN delta \div Puny.damp ELSE delta \div 2
    IN  PunyAdaptLoop(d1 + (d1 \div numpoints), 0)

RECURSIVE PunyInner(_, _, _, _)
PunyInner(input, b, i, st) ==
    IF i > Len(input) THEN st
    ELSE IF input[i] < st.n
         THEN PunyInner(input, b, i + 1, [st EXCEPT !.delta = @ + 1])
    ELSE IF input[i] = st.n
         THEN PunyInner(input, b, i + 1,
                 [st EXCEPT !.out = @ \o PunyVarInt(st.delta, Puny.base, st.bias),
                            !.bias = PunyAdapt(st.delta, st.h + 1, st.h = b),
                            !.delta = 0,
                            !.h = @ + 1])
    ELSE PunyInner(input, b, i + 1, st)

RECURSIVE PunyOuter(_, _, _)
PunyOuter(input, b, st) ==
    IF st.h >= Len(input) THEN st.out
    ELSE LET above == {c \in Range(input) : c >= st.n}
             m == CHOOSE c \in above : \A d \in above : c <= d
             s1 == [st EXCEPT !.delta = @ + (m - st.n) * (st.h + 1), !.n = m]
             s2 == PunyInner(input, b, 1, s1)
         IN  PunyOuter(input, b, [s2 EXCEPT !.delta = @ + 1, !.n = @ + 1])

PunycodeEncode(input) ==
    LET basic == SelectSeq(input, LAMBDA c : c < 128)
        b == Len(basic)
    IN  PunyOuter(input, b,
            [n |-> Puny.initial_n, delta |-> 0, bias |-> Puny.initial_bias,
             h |-> b,
             out |-> IF b > 0 THEN basic \o <<Ch.hyphen>> ELSE <<>>])

\* --- Host ---
\* The labels of a host, split at '.'.
RECURSIVE SplitDot(_)
SplitDot(h) ==
    LET i == FirstIn(h, {Ch.dot})
    IN  IF i > Len(h) THEN <<h>>
        ELSE <<Take(h, i - 1)>> \o SplitDot(Drop(h, i))

RECURSIVE JoinDot(_)
JoinDot(ls) ==
    IF Len(ls) = 1 THEN ls[1]
    ELSE ls[1] \o <<Ch.dot>> \o JoinDot(Tail(ls))

\* One label to its ASCII form: lowercase, and Punycode when not ASCII.
ToAsciiLabel(l) ==
    IF \A i \in 1..Len(l) : l[i] < 128 THEN Lower(l)
    ELSE S_xn \o PunycodeEncode(Lower(l))

\* Code points a host may not contain (WHATWG forbidden host code points).
ForbiddenHost ==
    (0..32) \cup {35, 37, 47, 58, 60, 62, 63, 64, 91, 92, 93, 94, 124, 127}

\* Host::parse of a non-empty domain: <<>> on error, <<host>> otherwise.
\* (No digit-only last label, '%', '[' or "xn--" label is ever typed in the
\* model, so IPv4/IPv6 literals, percent-decoding and ACE validation are
\* not represented.)
ParseHost(h) ==
    IF \E i \in 1..Len(h) : h[i] \in ForbiddenHost THEN <<>>
    ELSE LET ls == SplitDot(h)
         IN  <<JoinDot([i \in 1..Len(ls) |-> ToAsciiLabel(ls[i])])>>

\* --- Url::parse ---
\* Schemes with the special (authority-based, non-file) syntax.
SpecialSchemes ==
    {S_http, S_https, <<119, 115>>, <<119, 115, 115>>, <<102, 116, 112>>}

\* Default port of a special scheme, as decimal digits.
DefaultPort(scheme) ==
    IF scheme = S_http \/ scheme = <<119, 115>> THEN <<56, 48>>
    ELSE IF scheme = <<102, 116, 112>> THEN <<50, 49>>
    ELSE <<52, 52, 51>>

\* The parser drops leading and trailing C0 controls and spaces ...
RECURSIVE StripC0Start(_)
StripC0Start(s) ==
    IF s # <<>> /\ Head(s) <= 32 THEN StripC0Start(Tail(s)) ELSE s

RECURSIVE StripC0End(_)
StripC0End(s) ==
    IF s # <<>> /\ s[Len(s)] <= 32 THEN StripC0End(Take(s, Len(s) - 1)) ELSE s

\* ... and every ASCII tab and newline anywhere in its input.
RemoveTabNewline(s) == SelectSeq(s, LAMBDA c : c \notin {9, 10, 13})

\* Position of the ':' ending a scheme, or 0 when the input has no scheme:
\* a letter, then letters, digits, '+', '-' or '.', then ':'.
SchemeEnd(s) ==
    LET i == FirstIn(s, {Ch.colon})
    IN  IF /\ i <= Len(s)
           /\ i >= 2
           /\ IsAlpha(s[1])
           /\ \A j \in 2..(i - 1) :
                IsAlnum(s[j]) \/ s[j] \in {Ch.plus, Ch.hyphen, Ch.dot}
        THEN i ELSE 0

RECURSIVE SkipSlashes(_)
SkipSlashes(s) ==
    IF s # <<>> /\ Head(s) \in {Ch.slash, 92} THEN SkipSlashes(Tail(s)) ELSE s

\* Decimal value of a digit string.
RECURSIVE DecValue(_)
DecValue(d) ==
    IF d = <<>> THEN 0 ELSE 10 * DecValue(Take(d, Len(d) - 1)) + (d[Len(d)] - 48)

RECURSIVE DecString(_)
DecString(n) ==
    IF n < 10 THEN <<48 + n>> ELSE DecString(n \div 10) \o <<48 + (n % 10)>>

\* Port: <<>> on error, otherwise <<digits>> (digits empty: no port kept).
ParsePort(scheme, p) ==
    IF p = <<>> THEN << <<>> >>
    ELSE IF \E i \in 1..Len(p) : ~IsDigit(p[i]) THEN <<>>
    ELSE IF DecValue(p) > 65535 THEN <<>>
    ELSE IF DecString(DecValue(p)) = DefaultPort(scheme) THEN << <<>> >>
    ELSE <<DecString(DecValue(p))>>

\* Percent-encoding of one character of a special URL's query.
QueryEncodeChar(c) ==
    IF c < 33 \/ c > 126 \/ c \in {34, 35, 39, 60, 62}
    THEN Flatten([i \in 1..Len(Utf8Char(c)) |-> PercentByte(Utf8Char(c)[i])])
    ELSE <<c>>

\* Variant: a path character is never percent-encoded.
PathKeepChar(c) == <<c>>

\* Percent-encoding of one character of a path.
PathEncodeChar(c) ==
    IF c < 33 \/ c > 126 \/ c \in {34, 35, 60, 62, 63, 96, 123, 125}
    THEN Flatten([i \in 1..Len(Utf8Char(c)) |-> PercentByte(Utf8Char(c)[i])])
    ELSE <<c>>

\* Percent-encoding of one character of the opaque part of a URL whose
\* scheme is not special (controls and everything beyond '~').
OpaqueEncodeChar(c) ==
    IF c < 32 \/ c > 126
    THEN Flatten([i \in 1..Len(Utf8Char(c)) |-> PercentByte(Utf8Char(c)[i])])
    ELSE <<c>>

\* The path and query after the authority.  (No string parsed in the
\* model has '.'/'..' path segments or a '#', so neither dot-segment
\* removal nor fragments are represented.)
ParseTail(after) ==
    LET q == FirstIn(after, {Ch.qmark})
        path == Take(after, q - 1)
        query == Drop(after, q)
        p1 == IF path = <<>> THEN <<Ch.slash>>
              ELSE Flatten([i \in 1..Len(path) |-> PathEncodeChar(path[i])])
    IN  IF q > Len(after) THEN p1
        ELSE p1 \o <<Ch.qmark>>
             \o Flatten([i \in 1..Len(query) |-> QueryEncodeChar(query[i])])

\* A special (http, https, ...) URL after "scheme:": any run of slashes,
\* then host[:port], then path and query.  (No '@' occurs in the model.)
ParseSpecial(scheme, rest) ==
    LET r1 == SkipSlashes(rest)
        aend == FirstIn(r1, {Ch.slash, 92, Ch.qmark, Ch.hash})
        auth == Take(r1, aend - 1)
        after == Drop(r1, aend - 1)
        cpos == FirstIn(auth, {Ch.colon})
        host_in == Take(auth, cpos - 1)
        port_in == Drop(auth, cpos)
        host == ParseHost(host_in)
        port == ParsePort(scheme, port_in)
    IN  IF host_in = <<>> \/ host = <<>> \/ port = <<>> THEN <<>>
        ELSE <<[scheme |-> scheme, host |-> host[1], port |-> port[1],
                tail |-> ParseTail(after)]>>

\* Url::parse(input): <<>> is Err(_), <<u>> is Ok(u).
ParseUrl(input) ==
    LET s == RemoveTabNewline(StripC0End(StripC0Start(input)))
        e == SchemeEnd(s)
    IN  IF e = 0 THEN <<>>
        ELSE LET scheme == Lower(Take(s, e - 1))
                 rest == Drop(s, e)
             IN  IF scheme \in SpecialSchemes THEN ParseSpecial(scheme, rest)
                 ELSE <<[scheme |-> scheme, host |-> <<>>, port |-> <<>>,
                         tail |-> Flatten([i \in 1..Len(rest) |->
                                              OpaqueEncodeChar(rest[i])])]>>

\* ------------------------------------------------------------------------
\* resolve_input
\* ------------------------------------------------------------------------
\* url::form_urlencoded::byte_serialize: letters, digits and "*-._" stay,
\* a space becomes '+', every other byte becomes %XX.
ByteSerializeByte(b) ==
    IF IsAlnum(b) \/ b \in {42, Ch.hyphen, Ch.dot, 95} THEN <<b>>
    ELSE IF b = Ch.space THEN <<Ch.plus>>
    ELSE PercentByte(b)

byte_serialize(bytes) ==
    Flatten([i \in 1..Len(bytes) |-> ByteSerializeByte(bytes[i])])

\* if let Ok(url) = Url::parse(input) with scheme http or https
ParsesAsHttpUrl(input) ==
    LET p == ParseUrl(input)
    IN  p # <<>> /\ (p[1].scheme = S_http \/ p[1].scheme = S_https)

\* Variant: the domain test looks for a '.' only.
LooksLikeDomainDotOnly(input) == Contains(input, Ch.dot)

\* input.contains('.') && !input.contains(' ')
LooksLikeDomain(input) ==
    Contains(input, Ch.dot) /\ ~Contains(input, Ch.space)

\* Variant: the domain rule prepends "http://".
DomainUrlHttp(input) ==
    ParseUrl(S_http \o <<Ch.colon, Ch.slash, Ch.slash>> \o input)

\* Url::parse(&format!("https://{input}"))
DomainUrl(input) == ParseUrl(S_https_prefix \o input)

\* Url::parse(&format!("{DUCKDUCKGO_SEARCH}{encoded}")).ok()
SearchUrl(input) == ParseUrl(DUCKDUCKGO_SEARCH \o byte_serialize(Utf8(input)))

resolve_input(input) ==
    IF ParsesAsHttpUrl(input) THEN ParseUrl(input)
    ELSE IF LooksLikeDomain(input) /\ DomainUrl(input) # <<>>
         THEN DomainUrl(input)
    ELSE SearchUrl(input)

\* ------------------------------------------------------------------------
\* normalize_url_for_display
\* ------------------------------------------------------------------------
\* Zero-width and invisible characters the display filter removes.
InvisibleChars == (8203..8205) \cup {8288, 65279, 847, 8232, 8233}

\* Variant: the display form never takes the warning branch.
normalize_filter_only(url) ==
    SelectSeq(as_str(url), LAMBDA c : c \notin InvisibleChars)

normalize_url_for_display(url) ==
    IF StartsWith(host_str(url), S_xn)
    THEN S_warning \o as_str(url) \o S_punycode_label
    ELSE SelectSeq(as_str(url), LAMBDA c : c \notin InvisibleChars)

\* ------------------------------------------------------------------------
\* GlyphAtlas (src/src/chrome.rs)
\*
\* Lengths are whole pixels.  What font.rasterize(c, font_size) returns for
\* a character is a record [width, height, advance_width, xmin, ymin]; the
\* bitmap's pixel values are not represented, only the size of the pixel
\* buffer.
\* ------------------------------------------------------------------------
\* (32u8..=126): the characters the atlas is built for.
FIRST_CHAR == 32

LAST_CHAR == 126

AtlasChars == FIRST_CHAR..LAST_CHAR

\* let atlas_width: u32 = 512;
ATLAS_WIDTH == 512

\* let mut atlas_height: u32 = 64;  and  .max(64)
MIN_ATLAS_HEIGHT == 64

\* What rasterizing one glyph can give: nothing to draw (a space), a small
\* glyph, a tall one (font sizes beyond the initial atlas height) and one
\* wider than the atlas (a very large font size).
GlyphShapes ==
    { [width |-> 0, height |-> 0, advance_width |-> 4, xmin |-> 0, ymin |-> 0],
      [width |-> 9, height |-> 12, advance_width |-> 10, xmin |-> 1, ymin |-> 0],
      [width |-> 40, height |-> 70, advance_width |-> 41, xmin |-> 0, ymin |-> -9],
      [width |-> 600, height |-> 7, advance_width |-> 601, xmin |-> 2, ymin |-> 0] }

\* The result of rasterizing every atlas character with one font at one
\* size: the shapes follow a pattern of FontPeriod shapes.
Rasterized(pattern) ==
    [c \in AtlasChars |-> pattern[((c - FIRST_CHAR) % FontPeriod) + 1]]

Fonts == { Rasterized(pattern) : pattern \in [1..FontPeriod -> GlyphShapes] }

Max(a, b) == IF a >= b THEN a ELSE b

\* u32::next_power_of_two
RECURSIVE PowerOfTwoFrom(_, _)
PowerOfTwoFrom(p, n) == IF p >= n THEN p ELSE PowerOfTwoFrom(2 * p, n)

next_power_of_two(n) == PowerOfTwoFrom(1, n)

\* HashMap::insert: the map with key k bound to v.
insert(map, k, v) == (k :> v) @@ map

\* The packing state before the first glyph.
PackStart ==
    [x |-> 0, y |-> 0, row_height |-> 0, atlas_height |-> MIN_ATLAS_HEIGHT,
     glyphs |-> <<>>]

\* Variant: a new row starts at the left edge without moving down.
PlaceGlyphSameRow(st, c, metrics) ==
    LET w == metrics.width
        h == metrics.height
        x == IF st.x + w > ATLAS_WIDTH THEN 0 ELSE st.x
    IN  [x |-> x + w + 1, y |-> st.y, row_height |-> Max(st.row_height, h),
         atlas_height |-> st.atlas_height,
         glyphs |-> insert(st.glyphs, c,
                           [atlas_x |-> x, atlas_y |-> st.y, width |-> w,
                            height |-> h, advance_x |-> metrics.advance_width,
                            offset_x |-> metrics.xmin, offset_y |-> metrics.ymin])]

\* One iteration of the packing loop: place the glyph of c.
PlaceGlyph(st, c, metrics) ==
    LET w == metrics.width
        h == metrics.height
        wrap == st.x + w > ATLAS_WIDTH
        x == IF wrap THEN 0 ELSE st.x
        y == IF wrap THEN st.y + st.row_height + 1 ELSE st.y
        row_height == IF wrap THEN 0 ELSE st.row_height
        atlas_height == IF y + h > st.atlas_height
                        THEN Max(st.atlas_height * 2, y + h + 1)
                        ELSE st.atlas_height
    IN  [x |-> x + w + 1, y |-> y, row_height |-> Max(row_height, h),
         atlas_height |-> atlas_height,
         glyphs |-> insert(st.glyphs, c,
                           [atlas_x |-> x, atlas_y |-> y, width |-> w,
                            height |-> h, advance_x |-> metrics.advance_width,
                            offset_x |-> metrics.xmin, offset_y |-> metrics.ymin])]

\* The packing loop over the characters from c on, in order.  (x is a
\* u32; reading it makes each iteration's result a value before the next
\* iteration starts.)
RECURSIVE Pack(_, _, _)
Pack(st, c, rasterized) ==
    IF st.x >= 0 /\ c > LAST_CHAR THEN st
    ELSE Pack(PlaceGlyph(st, c, rasterized[c]), c + 1, rasterized)

\* Variant: the atlas height is the power of two without the minimum.
FinalHeightNoMin(st) == next_power_of_two(st.y + st.row_height + 1)

\* atlas_height = (y + row_height + 1).next_power_of_two().max(64)
FinalHeight(st) ==
    Max(next_power_of_two(st.y + st.row_height + 1), MIN_ATLAS_HEIGHT)

\* GlyphAtlas::build: the atlas of a rasterized font.  glyphs is the map
\* from character to GlyphInfo, pixels_len the length of the pixel buffer.
build(rasterized) ==
    LET st == Pack(PackStart, FIRST_CHAR, rasterized)
    IN  [width |-> ATLAS_WIDTH,
         height |-> FinalHeight(st),
         glyphs |-> st.glyphs,
         pixels_len |-> ATLAS_WIDTH * FinalHeight(st)]

\* ------------------------------------------------------------------------
\* ChromeRenderer::draw (src/src/chrome.rs)
\*
\* The GL context is a record of the state draw touches: the three enable
\* flags, the viewport, the blend function, the current program, the bound
\* vertex array, the array-buffer binding, the active texture unit and the
\* 2D texture bound to each unit.  Objects are named: "chrome" is the
\* renderer's own program, vertex array, buffer or texture, "other" belongs
\* to the page compositor, "none" is no object.  Texture units are numbered
\* from 1 (TEXTURE0 is unit 1).  Lengths are whole pixels.
\* ------------------------------------------------------------------------
\* ChromeConfig::default()
ChromeConfig ==
    [height |-> 40, font_size |-> 16, text_left_pad |-> 12, bar_margin |-> 6,
     bar_h_pad |-> 8]

\* The context as the page compositor leaves it before draw: every
\* combination of the three flags, with the compositor's own viewport,
\* blend function and objects.
Contexts ==
    { [blend |-> b, depth_test |-> d, scissor_test |-> sc,
       viewport |-> <<0, 0, 1280, 760>>,
       blend_func |-> <<"ONE", "ONE_MINUS_SRC_ALPHA">>,
       program |-> "other", vertex_array |-> "other",
       array_buffer |-> "other", active_texture |-> 2,
       texture_2d |-> <<"other", "other">>] :
        b \in BOOLEAN, d \in BOOLEAN, sc \in BOOLEAN }

\* Variant: the scissor test is left disabled when draw returns.
draw_gl_forgets_scissor(g, window_width, window_height) ==
    [g EXCEPT !.viewport = <<0, 0, window_width, window_height>>,
              !.scissor_test = FALSE,
              !.blend_func = <<"SRC_ALPHA", "ONE_MINUS_SRC_ALPHA">>,
              !.program = "none", !.vertex_array = "none",
              !.array_buffer = "chrome", !.active_texture = 1,
              !.texture_2d[1] = "chrome"]

\* What draw does to the context, call by call.
draw_gl(g, window_width, window_height) ==
    LET prev_blend == g.blend
        prev_depth == g.depth_test
        prev_scissor == g.scissor_test
        \* viewport, disable, disable, enable, blend_func, use_program,
        \* bind_vertex_array(Some(self.vao))
        g1 == [g EXCEPT !.viewport = <<0, 0, window_width, window_height>>,
                        !.depth_test = FALSE,
                        !.scissor_test = FALSE,
                        !.blend = TRUE,
                        !.blend_func = <<"SRC_ALPHA", "ONE_MINUS_SRC_ALPHA">>,
                        !.program = "chrome",
                        !.vertex_array = "chrome"]
        \* draw_rect: bind_buffer(ARRAY_BUFFER, Some(self.vbo))
        g2 == [g1 EXCEPT !.array_buffer = "chrome"]
        \* active_texture(TEXTURE0); bind_texture(TEXTURE_2D, atlas_texture)
        g3 == [g2 EXCEPT !.active_texture = 1, !.texture_2d[1] = "chrome"]
        \* bind_vertex_array(None); use_program(None)
        g4 == [g3 EXCEPT !.vertex_array = "none", !.program = "none"]
    IN  [g4 EXCEPT !.depth_test = IF prev_depth THEN TRUE ELSE @,
                   !.blend = IF ~prev_blend THEN FALSE ELSE @,
                   !.scissor_test = IF prev_scissor THEN TRUE ELSE @]

\* The pen advance for a character the atlas does not have: the space
\* glyph's, or half the font size when the atlas has no space either.
MissingAdvance(at) ==
    IF Ch.space \in DOMAIN at.glyphs THEN at.glyphs[Ch.space].advance_x
    ELSE ChromeConfig.font_size \div 2

\* The text loop before the first character.
LoopStart(text_x, cursor_offset) ==
    [pen_x |-> text_x, pens |-> <<>>, quads |-> <<>>,
     cursor_x |-> IF cursor_offset = Some(0) THEN Some(text_x) ELSE None,
     broke |-> FALSE]

\* Variant: a character the atlas does not have ends the text loop.
LoopStepStopsOnMissing(lp, at, char_idx, c, max_text_x, cursor_offset) ==
    IF lp.broke \/ lp.pen_x > max_text_x \/ c \notin DOMAIN at.glyphs
    THEN [lp EXCEPT !.broke = TRUE]
    ELSE [pen_x |-> lp.pen_x + at.glyphs[c].advance_x,
          pens |-> Append(lp.pens, lp.pen_x + at.glyphs[c].advance_x),
          quads |-> IF at.glyphs[c].width > 0 /\ at.glyphs[c].height > 0
                    THEN Append(lp.quads, [char_idx |-> char_idx,
                                           x |-> lp.pen_x + at.glyphs[c].offset_x])
                    ELSE lp.quads,
          cursor_x |-> IF cursor_offset = Some(char_idx + 1)
                       THEN Some(lp.pen_x + at.glyphs[c].advance_x)
                       ELSE lp.cursor_x,
          broke |-> FALSE]

\* Variant: the cursor position is taken before the character it follows
\* has moved the pen.
LoopStepCursorBeforeAdvance(lp, at, char_idx, c, max_text_x, cursor_offset) ==
    IF lp.broke \/ lp.pen_x > max_text_x THEN [lp EXCEPT !.broke = TRUE]
    ELSE LET present == c \in DOMAIN at.glyphs
             pen_x == lp.pen_x + (IF present THEN at.glyphs[c].advance_x
                                  ELSE MissingAdvance(at))
         IN  [pen_x |-> pen_x,
              pens |-> Append(lp.pens, pen_x),
              quads |-> IF present /\ at.glyphs[c].width > 0
                                   /\ at.glyphs[c].height > 0
                        THEN Append(lp.quads,
                                    [char_idx |-> char_idx,
                                     x |-> lp.pen_x + at.glyphs[c].offset_x])
                        ELSE lp.quads,
              cursor_x |-> IF cursor_offset = Some(char_idx + 1)
                           THEN Some(lp.pen_x) ELSE lp.cursor_x,
              broke |-> FALSE]

\* Variant: the text loop never stops at the right padding boundary.
LoopStepNoTruncation(lp, at, char_idx, c, max_text_x, cursor_offset) ==
    LET present == c \in DOMAIN at.glyphs
        pen_x == lp.pen_x + (IF present THEN at.glyphs[c].advance_x
                             ELSE MissingAdvance(at))
    IN  [pen_x |-> pen_x,
         pens |-> Append(lp.pens, pen_x),
         quads |-> IF present /\ at.glyphs[c].width > 0
                              /\ at.glyphs[c].height > 0
                   THEN Append(lp.quads,
                               [char_idx |-> char_idx,
                                x |-> lp.pen_x + at.glyphs[c].offset_x])
                   ELSE lp.quads,
         cursor_x |-> IF cursor_offset = Some(char_idx + 1)
                      THEN Some(pen_x) ELSE lp.cursor_x,
         broke |-> FALSE]

\* One iteration of the text loop, for the character c at index char_idx
\* (from 0): lp.pens collects the pen position after each character.
LoopStep(lp, at, char_idx, c, max_text_x, cursor_offset) ==
    IF lp.broke \/ lp.pen_x > max_text_x THEN [lp EXCEPT !.broke = TRUE]
    ELSE LET present == c \in DOMAIN at.glyphs
             pen_x == lp.pen_x + (IF present THEN at.glyphs[c].advance_x
                                  ELSE MissingAdvance(at))
         IN  [pen_x |-> pen_x,
              pens |-> Append(lp.pens, pen_x),
              quads |-> IF present /\ at.glyphs[c].width > 0
                                   /\ at.glyphs[c].height > 0
                        THEN Append(lp.quads,
                                    [char_idx |-> char_idx,
                                     x |-> lp.pen_x + at.glyphs[c].offset_x])
                        ELSE lp.quads,
              cursor_x |-> IF cursor_offset = Some(char_idx + 1)
                           THEN Some(pen_x) ELSE lp.cursor_x,
              broke |-> FALSE]

\* for (char_idx, c) in url_text.chars().enumerate(), from index char_idx on
RECURSIVE TextLoop(_, _, _, _, _, _)
TextLoop(lp, at, url_text, char_idx, max_text_x, cursor_offset) ==
    IF char_idx >= Len(url_text) THEN lp
    ELSE TextLoop(LoopStep(lp, at, char_idx, url_text[char_idx + 1],
                           max_text_x, cursor_offset),
                  at, url_text, char_idx + 1, max_text_x, cursor_offset)

\* let text_x = bar_x + self.bar_h_pad + self.text_left_pad;
text_x == ChromeConfig.bar_margin + ChromeConfig.bar_h_pad
              + ChromeConfig.text_left_pad

\* let max_text_x = bar_x + bar_w - self.bar_h_pad;
max_text_x(window_width) ==
    ChromeConfig.bar_margin + (window_width - ChromeConfig.bar_margin * 2)
        - ChromeConfig.bar_h_pad

\* draw_rect(x, y, w, h, color): one solid rectangle, the colour named by
\* the ChromeColors field it comes from.
draw_rect(x, y, w, h, color) ==
    [kind |-> "rect", x |-> x, y |-> y, w |-> w, h |-> h, color |-> color]

\* Variant: the input field is painted before the background of the bar.
DrawCallsFieldFirst(window_width, focused, quads, caret) ==
    LET bar_w == window_width - ChromeConfig.bar_margin * 2
        bar_h == ChromeConfig.height - ChromeConfig.bar_margin * 2
    IN  << draw_rect(ChromeConfig.bar_margin, ChromeConfig.bar_margin,
                     bar_w, bar_h, "bar_border"),
           draw_rect(ChromeConfig.bar_margin + 1, ChromeConfig.bar_margin + 1,
                     bar_w - 2, bar_h - 2, "bar_background"),
           draw_rect(0, 0, window_width, ChromeConfig.height,
                     IF focused THEN "background_focused" ELSE "background") >>
        \o [q \in 1..Len(quads) |->
              [kind |-> "glyph", char_idx |-> quads[q].char_idx,
               x |-> quads[q].x, color |-> "text"]]
        \o (IF caret = None THEN <<>>
            ELSE << draw_rect(caret[1],
                              (ChromeConfig.height - (ChromeConfig.font_size + 4)) \div 2,
                              2, ChromeConfig.font_size + 4, "cursor") >>)

\* The draw calls of one draw, in the order they are issued: the three
\* rectangles of the bar, draw_textured_rect for each glyph quad of the
\* text loop, and the caret.
DrawCalls(window_width, focused, quads, caret) ==
    LET bar_x == ChromeConfig.bar_margin
        bar_y == ChromeConfig.bar_margin
        bar_w == window_width - ChromeConfig.bar_margin * 2
        bar_h == ChromeConfig.height - ChromeConfig.bar_margin * 2
        cursor_h == ChromeConfig.font_size + 4
        cursor_y == (ChromeConfig.height - cursor_h) \div 2
    IN  << draw_rect(0, 0, window_width, ChromeConfig.height,
                     IF focused THEN "background_focused" ELSE "background"),
           draw_rect(bar_x, bar_y, bar_w, bar_h, "bar_border"),
           draw_rect(bar_x + 1, bar_y + 1, bar_w - 2, bar_h - 2,
                     "bar_background") >>
        \o [q \in 1..Len(quads) |->
              [kind |-> "glyph", char_idx |-> quads[q].char_idx,
               x |-> quads[q].x, color |-> "text"]]
        \o (IF caret = None THEN <<>>
            ELSE << draw_rect(caret[1], cursor_y, 2, cursor_h, "cursor") >>)

\* Variant: a focused field whose cursor the text loop did not reach gets
\* its caret where the pen stopped.
draw_frame_caret_at_pen(at, window_width, url_text, focused, cursor_offset) ==
    LET lp == TextLoop(LoopStart(text_x, cursor_offset), at, url_text, 0,
                       max_text_x(window_width), cursor_offset)
    IN  [window_width |-> window_width, url_text |-> url_text,
         focused |-> focused, cursor_offset |-> cursor_offset,
         quads |-> lp.quads, pens |-> lp.pens,
         caret |-> IF ~focused THEN None
                   ELSE IF lp.cursor_x # None THEN lp.cursor_x
                   ELSE Some(lp.pen_x),
         calls |-> DrawCalls(window_width, focused, lp.quads,
                             IF ~focused THEN None
                             ELSE IF lp.cursor_x # None THEN lp.cursor_x
                             ELSE Some(lp.pen_x)),
         again |-> FALSE]

\* What one draw call puts on screen: the glyph quads of the text and the
\* caret, and all its draw calls in order, with the arguments it was
\* called with.
draw_frame(at, window_width, url_text, focused, cursor_offset) ==
    LET lp == TextLoop(LoopStart(text_x, cursor_offset), at, url_text, 0,
                       max_text_x(window_width), cursor_offset)
    IN  [window_width |-> window_width, url_text |-> url_text,
         focused |-> focused, cursor_offset |-> cursor_offset,
         quads |-> lp.quads, pens |-> lp.pens,
         caret |-> IF focused THEN lp.cursor_x ELSE None,
         calls |-> DrawCalls(window_width, focused, lp.quads,
                             IF focused THEN lp.cursor_x ELSE None),
         again |-> FALSE]

\* ------------------------------------------------------------------------
\* State
\* ------------------------------------------------------------------------
VARIABLES
    text,          \* UrlBar.text, a sequence of characters
    cursor,        \* UrlBar.cursor, a byte offset into text
    focus,         \* UrlBar.focus: "Unfocused", "Focused" or "Editing"
    current_url,   \* UrlBar.current_url: None or Some(url)
    engine_url,    \* Config.search.engine_url
    panicked,      \* a string operation was given an invalid byte offset
    ret,           \* the Option<Url> the last call returned (submit only)
    op,            \* name of the last operation called
    arg,           \* the character given to the last insert_char, else 0
    arg_url,       \* Some(url) given to the last set_url, else None
    pre,           \* mode and text length just before the last operation
    repeated,      \* the last operation was also the one called before it
    forwarded,     \* what the last keyboard event handed to the web content
    font,          \* the rasterized font GlyphAtlas::build is called with
    atlas,         \* what that call of GlyphAtlas::build returned
    gl,            \* the GL context's state
    gl0,           \* the GL context's state before the first draw
    frame,         \* what the last draw put on screen
    phase,         \* App: "Initial" or "Running"
    entry,         \* the handler or delegate callback that ran last
    calls,         \* what the last event handler called, in order
    page_url,      \* AppState.current_url
    adblock,       \* AppState.adblock_engine: None or Some(engine)
    request        \* the last resource request and what was decided, or None

\* The renderer's side of the state.
chrome_vars == <<font, atlas, gl, gl0, frame>>

\* The address field's side of the state.
urlbar_vars == <<text, cursor, focus, current_url, engine_url, panicked, ret,
                 op, arg, arg_url, pre, repeated>>

\* The application's side of the state.
app_vars == <<phase, entry, calls, page_url, adblock, request>>

vars == <<text, cursor, focus, current_url, engine_url, panicked, ret, op,
          arg, arg_url, pre, repeated, forwarded, font, atlas, gl, gl0, frame,
          phase, entry, calls, page_url, adblock, request>>

\* URLs the content layer reports: a plain host and an IDN (xn--) host.
U_plain == [scheme |-> S_http, host |-> <<97, 46, 97>>, port |-> <<>>,
            tail |-> <<Ch.slash>>]

U_idn == [scheme |-> S_http, host |-> S_xn \o <<57, 99, 97>>, port |-> <<>>,
          tail |-> <<Ch.slash>>]

Urls == {U_plain, U_idn}

\* What the content layer's URLs are written from in the display
\* exploration: a plain host, an internationalized host and a scheme that
\* is not special, each followed by a path and query over DisplayChars.
DisplayPrefixes ==
    { S_http \o <<Ch.colon, Ch.slash, Ch.slash, Ch.a, Ch.dot, Ch.a, Ch.slash>>,
      S_http \o <<Ch.colon, Ch.slash, Ch.slash, Ch.eacute, Ch.slash>>,
      <<Ch.a, Ch.colon>> }

\* The URLs notify_url_changed delivers in the display exploration: every
\* Url that Url::parse makes of such a string.
DisplayUrls ==
    { ParseUrl(p \o t)[1] :
        p \in DisplayPrefixes, t \in UNION {[1..k -> DisplayChars] : k \in 0..MaxPath} }

\* Values of the search engine_url setting: the default and another one.
EngineUrls == {DUCKDUCKGO_SEARCH, GOOGLE_SEARCH}

\* What the model remembers of the state an operation was called in.
Snapshot == [focus |-> focus, len |-> Len(text)]

\* Bookkeeping every operation does in the model: remember the state it
\* was called in, its name and its argument.
Called(name, c, u) ==
    /\ ~panicked
    /\ pre' = Snapshot
    /\ op' = name
    /\ repeated' = (op = name)
    /\ arg' = c
    /\ arg_url' = u
    /\ forwarded' = "Nothing"
    /\ UNCHANGED <<engine_url, chrome_vars>>

\* A panic: the call never returns and the fields stay as they were.
Panic ==
    /\ panicked' = TRUE
    /\ ret' = None
    /\ UNCHANGED <<text, cursor, focus, current_url>>

\* UrlBar::new(): an empty, unfocused field with no URL recorded.
NewUrlBar ==
    /\ text = <<>>
    /\ cursor = 0
    /\ focus = "Unfocused"
    /\ current_url = None
    /\ panicked = FALSE
    /\ ret = None
    /\ op = "new"
    /\ arg = 0
    /\ arg_url = None
    /\ pre = [focus |-> "Unfocused", len |-> 0]
    /\ repeated = FALSE

\* No renderer exists (the address field needs none).
NoChrome ==
    /\ font = None
    /\ atlas = None
    /\ gl = None
    /\ gl0 = None
    /\ frame = None

\* The application is running, no event has been handled, no page URL has
\* been reported and no filter list was found.
NoApp ==
    /\ phase = "Running"
    /\ entry = [name |-> "resumed", urlbar |-> "free"]
    /\ calls = <<>>
    /\ page_url = None
    /\ adblock = None
    /\ request = None

\* A call made from outside the event handlers: nothing of the
\* application changes.
Direct == UNCHANGED app_vars

\* Start with the default configuration (SearchConfig::default).
Init ==
    /\ NewUrlBar
    /\ engine_url = DUCKDUCKGO_SEARCH
    /\ forwarded = "Nothing"
    /\ NoChrome
    /\ NoApp

\* Every text of at most n characters over the character set C.
Texts(C, n) == UNION {[1..k -> C] : k \in 0..n}

\* A field in which some text has been typed (cursor at its end, focused),
\* under any configuration Config::load() can produce.
InitResolve ==
    /\ text \in Texts(ResolveChars, MaxInput)
    /\ cursor = ByteLen(text)
    /\ focus \in {"Focused", "Editing"}
    /\ current_url = None
    /\ engine_url \in EngineUrls
    /\ forwarded = "Nothing"
    /\ NoChrome
    /\ NoApp
    /\ panicked = FALSE
    /\ ret = None
    /\ op = "typed"
    /\ arg = 0
    /\ arg_url = None
    /\ pre = [focus |-> "Unfocused", len |-> 0]
    /\ repeated = FALSE

\* ------------------------------------------------------------------------
\* Operations of UrlBar
\* ------------------------------------------------------------------------
\* Variant: set_url overwrites the text in every mode.
set_url_always_overwrites(url) ==
    /\ Called("set_url", 0, Some(url))
    /\ current_url' = Some(url)
    /\ text' = normalize_url_for_display(url)
    /\ cursor' = ByteLen(text')
    /\ ret' = None
    /\ UNCHANGED <<focus, panicked>>

set_url(url) ==
    /\ Called("set_url", 0, Some(url))
    /\ current_url' = Some(url)
    /\ IF focus = "Unfocused"
       THEN /\ text' = normalize_url_for_display(url)
            /\ cursor' = ByteLen(text')
       ELSE UNCHANGED <<text, cursor>>
    /\ ret' = None
    /\ UNCHANGED <<focus, panicked>>

\* Variant: focus leaves the cursor where it was.
focus_keeps_cursor ==
    /\ Called("focus", 0, None)
    /\ focus' = "Focused"
    /\ ret' = None
    /\ UNCHANGED <<text, cursor, current_url, panicked>>

focus_bar ==
    /\ Called("focus", 0, None)
    /\ focus' = "Focused"
    /\ cursor' = ByteLen(text)
    /\ ret' = None
    /\ UNCHANGED <<text, current_url, panicked>>

\* Variant: unfocus leaves the typed text in place.
unfocus_keeps_text ==
    /\ Called("unfocus", 0, None)
    /\ focus' = "Unfocused"
    /\ ret' = None
    /\ UNCHANGED <<text, cursor, current_url, panicked>>

\* Variant: unfocus moves the cursor to the end of the text before it
\* restores the URL.
unfocus_cursor_first ==
    /\ Called("unfocus", 0, None)
    /\ focus' = "Unfocused"
    /\ IF current_url # None
       THEN /\ text' = normalize_url_for_display(current_url[1])
            /\ cursor' = ByteLen(text)
       ELSE UNCHANGED <<text, cursor>>
    /\ ret' = None
    /\ UNCHANGED <<current_url, panicked>>

unfocus ==
    /\ Called("unfocus", 0, None)
    /\ focus' = "Unfocused"
    /\ IF current_url # None
       THEN /\ text' = normalize_url_for_display(current_url[1])
            /\ cursor' = ByteLen(text')
       ELSE UNCHANGED <<text, cursor>>
    /\ ret' = None
    /\ UNCHANGED <<current_url, panicked>>

\* String::insert(idx, c): panics unless idx is a character boundary.
StringInsert(s, idx, c) ==
    LET k == CharsBefore(s, idx) IN Take(s, k) \o <<c>> \o Drop(s, k)

\* Variant: insert_char in focused-selected mode keeps the old text.
insert_char_appends(c) ==
    /\ Called("insert_char", c, None)
    /\ focus = "Focused" \/ Len(text) < MaxLen
    /\ IF ~is_char_boundary(text, cursor)
       THEN Panic
       ELSE /\ text' = StringInsert(text, cursor, c)
            /\ cursor' = cursor + len_utf8(c)
            /\ focus' = IF focus = "Focused" THEN "Editing" ELSE focus
            /\ ret' = None
            /\ UNCHANGED <<current_url, panicked>>

\* Variant: insert_char does nothing in unfocused mode.
insert_char_needs_focus(c) ==
    /\ Called("insert_char", c, None)
    /\ focus = "Focused" \/ Len(text) < MaxLen
    /\ LET t0 == IF focus = "Focused" THEN <<>> ELSE text
           c0 == IF focus = "Focused" THEN 0 ELSE cursor
       IN  IF ~is_char_boundary(t0, c0)
           THEN Panic
           ELSE /\ text' = IF focus = "Unfocused" THEN text
                           ELSE StringInsert(t0, c0, c)
                /\ cursor' = IF focus = "Unfocused" THEN cursor
                             ELSE c0 + len_utf8(c)
                /\ focus' = IF focus = "Focused" THEN "Editing" ELSE focus
                /\ ret' = None
                /\ UNCHANGED <<current_url, panicked>>

insert_char(c) ==
    /\ Called("insert_char", c, None)
    /\ focus = "Focused" \/ Len(text) < MaxLen
    /\ LET t0 == IF focus = "Focused" THEN <<>> ELSE text
           c0 == IF focus = "Focused" THEN 0 ELSE cursor
       IN  IF ~is_char_boundary(t0, c0)
           THEN Panic
           ELSE /\ text' = StringInsert(t0, c0, c)
                /\ cursor' = c0 + len_utf8(c)
                /\ focus' = IF focus = "Focused" THEN "Editing" ELSE focus
                /\ ret' = None
                /\ UNCHANGED <<current_url, panicked>>

\* The select-all branch shared by backspace and delete.
ClearAll ==
    /\ text' = <<>>
    /\ cursor' = 0
    /\ focus' = "Editing"
    /\ ret' = None
    /\ UNCHANGED <<current_url, panicked>>

\* Variant: the previous position is one byte back.
PrevBoundaryOneByte(s, b) == b - 1

\* s[..b].char_indices().next_back().map(|(i, _)| i).unwrap_or(0)
PrevBoundary(s, b) ==
    LET k == CharsBefore(s, b) IN IF k = 0 THEN 0 ELSE OffsetOf(s, k - 1)

\* Variant: the next position is one byte further.
NextBoundaryOneByte(s, b) == b + 1

\* s[b..].char_indices().nth(1).map(|(i, _)| b + i).unwrap_or(s.len())
NextBoundary(s, b) ==
    LET k == CharsBefore(s, b)
    IN  IF k + 2 <= Len(s) THEN OffsetOf(s, k + 1) ELSE ByteLen(s)

\* String::drain(from..to) of whole characters.
Drain(s, from, to) ==
    Take(s, CharsBefore(s, from)) \o Drop(s, CharsBefore(s, to))

backspace ==
    /\ Called("backspace", 0, None)
    /\ focus = "Focused" \/ Len(text) <= MaxLen
    /\ IF focus = "Focused" THEN ClearAll
       ELSE IF cursor > 0
       THEN IF ~is_char_boundary(text, cursor) THEN Panic
            ELSE /\ text' = Drain(text, PrevBoundary(text, cursor), cursor)
                 /\ cursor' = PrevBoundary(text, cursor)
                 /\ ret' = None
                 /\ UNCHANGED <<focus, current_url, panicked>>
       ELSE /\ ret' = None
            /\ UNCHANGED <<text, cursor, focus, current_url, panicked>>

\* Variant: delete in focused-selected mode switches to editing and
\* deletes the one character after the cursor.
delete_ignores_selection ==
    /\ Called("delete", 0, None)
    /\ focus = "Focused" \/ Len(text) <= MaxLen
    /\ focus' = IF focus = "Focused" THEN "Editing" ELSE focus
    /\ IF cursor < ByteLen(text)
       THEN IF ~is_char_boundary(text, cursor)
            THEN /\ panicked' = TRUE
                 /\ ret' = None
                 /\ UNCHANGED <<text, cursor, current_url>>
            ELSE /\ text' = Drain(text, cursor, NextBoundary(text, cursor))
                 /\ ret' = None
                 /\ UNCHANGED <<cursor, current_url, panicked>>
       ELSE /\ ret' = None
            /\ UNCHANGED <<text, cursor, current_url, panicked>>

delete ==
    /\ Called("delete", 0, None)
    /\ focus = "Focused" \/ Len(text) <= MaxLen
    /\ IF focus = "Focused" THEN ClearAll
       ELSE IF cursor < ByteLen(text)
       THEN IF ~is_char_boundary(text, cursor) THEN Panic
            ELSE /\ text' = Drain(text, cursor, NextBoundary(text, cursor))
                 /\ ret' = None
                 /\ UNCHANGED <<cursor, focus, current_url, panicked>>
       ELSE /\ ret' = None
            /\ UNCHANGED <<text, cursor, focus, current_url, panicked>>

\* Variant: move_cursor_left in focused-selected mode switches to editing
\* and then moves one character left of the end.
move_cursor_left_from_end ==
    /\ Called("move_cursor_left", 0, None)
    /\ focus' = IF focus = "Focused" THEN "Editing" ELSE focus
    /\ IF cursor > 0
       THEN IF ~is_char_boundary(text, cursor)
            THEN /\ panicked' = TRUE
                 /\ UNCHANGED cursor
            ELSE /\ cursor' = PrevBoundary(text, cursor)
                 /\ UNCHANGED panicked
       ELSE UNCHANGED <<cursor, panicked>>
    /\ ret' = None
    /\ UNCHANGED <<text, current_url>>

move_cursor_left ==
    /\ Called("move_cursor_left", 0, None)
    /\ IF focus = "Focused"
       THEN /\ focus' = "Editing"
            /\ cursor' = 0
            /\ ret' = None
            /\ UNCHANGED <<text, current_url, panicked>>
       ELSE IF cursor > 0
       THEN IF ~is_char_boundary(text, cursor) THEN Panic
            ELSE /\ cursor' = PrevBoundary(text, cursor)
                 /\ ret' = None
                 /\ UNCHANGED <<text, focus, current_url, panicked>>
       ELSE /\ ret' = None
            /\ UNCHANGED <<text, cursor, focus, current_url, panicked>>

move_cursor_right ==
    /\ Called("move_cursor_right", 0, None)
    /\ IF focus = "Focused"
       THEN /\ focus' = "Editing"
            /\ ret' = None
            /\ UNCHANGED <<text, cursor, current_url, panicked>>
       ELSE IF cursor < ByteLen(text)
       THEN IF ~is_char_boundary(text, cursor) THEN Panic
            ELSE /\ cursor' = NextBoundary(text, cursor)
                 /\ ret' = None
                 /\ UNCHANGED <<text, focus, current_url, panicked>>
       ELSE /\ ret' = None
            /\ UNCHANGED <<text, cursor, focus, current_url, panicked>>

home ==
    /\ Called("home", 0, None)
    /\ focus' = IF focus = "Focused" THEN "Editing" ELSE focus
    /\ cursor' = 0
    /\ ret' = None
    /\ UNCHANGED <<text, current_url, panicked>>

\* Variant: end switches to editing from every mode.
end_enters_editing ==
    /\ Called("end", 0, None)
    /\ focus' = "Editing"
    /\ cursor' = ByteLen(text)
    /\ ret' = None
    /\ UNCHANGED <<text, current_url, panicked>>

end ==
    /\ Called("end", 0, None)
    /\ focus' = IF focus = "Focused" THEN "Editing" ELSE focus
    /\ cursor' = ByteLen(text)
    /\ ret' = None
    /\ UNCHANGED <<text, current_url, panicked>>

select_all ==
    /\ Called("select_all", 0, None)
    /\ focus' = "Focused"
    /\ cursor' = ByteLen(text)
    /\ ret' = None
    /\ UNCHANGED <<text, current_url, panicked>>

\* Variant: submit never leaves the focused modes.
submit_keeps_focus ==
    /\ Called("submit", 0, None)
    /\ LET input == Trim(text)
       IN  ret' = IF input = <<>> THEN None ELSE resolve_input(input)
    /\ UNCHANGED <<text, cursor, focus, current_url, panicked>>

\* Variant: a submit that resolves shows the destination in the field.
submit_shows_destination ==
    /\ Called("submit", 0, None)
    /\ LET input == Trim(text)
       IN  IF input = <<>>
           THEN /\ ret' = None
                /\ UNCHANGED <<focus, text, cursor>>
           ELSE /\ ret' = resolve_input(input)
                /\ focus' = "Unfocused"
                /\ text' = IF ret' = None THEN text ELSE as_str(ret'[1])
                /\ cursor' = ByteLen(text')
    /\ UNCHANGED <<current_url, panicked>>

submit ==
    /\ Called("submit", 0, None)
    /\ LET input == Trim(text)
       IN  IF input = <<>>
           THEN /\ ret' = None
                /\ UNCHANGED focus
           ELSE /\ ret' = resolve_input(input)
                /\ focus' = "Unfocused"
    /\ UNCHANGED <<text, cursor, current_url, panicked>>

\* UrlBar::is_focused()
is_focused == focus # "Unfocused"

\* UrlBar::display_text()
display_text == text

\* UrlBar::cursor_pos()
cursor_pos == cursor

\* Variant: the character offset is taken to be the byte offset.
cursor_char_offset_bytes == cursor

\* UrlBar::cursor_char_offset(): self.text[..self.cursor].chars().count()
cursor_char_offset == CharsBefore(text, cursor)

Next ==
    \/ \E url \in Urls : set_url(url) /\ Direct
    \/ focus_bar /\ Direct
    \/ unfocus /\ Direct
    \/ \E c \in InputChars : insert_char(c) /\ Direct
    \/ backspace /\ Direct
    \/ delete /\ Direct
    \/ move_cursor_left /\ Direct
    \/ move_cursor_right /\ Direct
    \/ home /\ Direct
    \/ end /\ Direct
    \/ select_all /\ Direct
    \/ submit /\ Direct

Spec == Init /\ [][Next]_vars

\* The display form alone: URLs arrive, the field is focused and unfocused.
NextDisplay ==
    \/ \E url \in DisplayUrls : set_url(url) /\ Direct
    \/ focus_bar /\ Direct
    \/ unfocus /\ Direct

SpecDisplay == Init /\ [][NextDisplay]_vars

\* A field nobody has focused yet: neither focus() nor select_all() is
\* called (neither Ctrl+L nor a click in the bar has happened), the other
\* operations are.
NextNeverFocused ==
    \/ \E url \in Urls : set_url(url) /\ Direct
    \/ \E c \in InputChars : insert_char(c) /\ Direct
    \/ backspace /\ Direct
    \/ delete /\ Direct
    \/ move_cursor_left /\ Direct
    \/ move_cursor_right /\ Direct
    \/ home /\ Direct
    \/ end /\ Direct
    \/ submit /\ Direct

SpecNeverFocused == Init /\ [][NextNeverFocused]_vars

\* ------------------------------------------------------------------------
\* Building the atlas
\* ------------------------------------------------------------------------
\* A font has been rasterized at the configured size; no atlas yet.
InitAtlas ==
    /\ NewUrlBar
    /\ engine_url = DUCKDUCKGO_SEARCH
    /\ forwarded = "Nothing"
    /\ font \in {Some(f) : f \in Fonts}
    /\ atlas = None
    /\ gl = None
    /\ gl0 = None
    /\ frame = None
    /\ NoApp

\* let atlas = GlyphAtlas::build(&font, config.font_size);
build_atlas ==
    /\ atlas = None
    /\ atlas' = Some(build(font[1]))
    /\ UNCHANGED <<urlbar_vars, forwarded, font, gl, gl0, frame>>

NextAtlas == build_atlas /\ Direct

SpecAtlas == InitAtlas /\ [][NextAtlas]_vars

\* ------------------------------------------------------------------------
\* Drawing
\* ------------------------------------------------------------------------
\* The bundled font rasterized at the default size: a space with nothing
\* to draw, every other character a small glyph.
RegularFont ==
    [c \in AtlasChars |->
        IF c = Ch.space
        THEN [width |-> 0, height |-> 0, advance_width |-> 4, xmin |-> 0, ymin |-> 0]
        ELSE [width |-> 9, height |-> 12, advance_width |-> 10, xmin |-> 1, ymin |-> 0]]

\* The characters of the display texts draw is explored on: a letter, a
\* space and a character the atlas does not have.
DrawChars == {Ch.a, Ch.space, Ch.eacute}

\* Window widths: the default one, and one so narrow that the text is cut
\* after its first glyph and that a space moves the pen exactly onto the
\* right padding boundary.
WindowWidths == {1280, 44}

\* self.atlas: built once by ChromeRenderer::new from the bundled font and
\* never changed afterwards.
RendererAtlas == build(RegularFont)

\* The renderer exists and the page compositor has left the context in
\* some state.
InitDraw ==
    /\ NewUrlBar
    /\ engine_url = DUCKDUCKGO_SEARCH
    /\ forwarded = "Nothing"
    /\ font = None
    /\ atlas = None
    /\ gl \in {Some(g) : g \in Contexts}
    /\ gl0 = gl
    /\ frame = None
    /\ NoApp

\* ChromeRenderer::draw(window_width, window_height, url_text, is_focused,
\* cursor_char_offset); `again` tells that it was not the first draw.
draw(window_width, window_height, url_text, focused, cursor_offset) ==
    /\ gl # None
    /\ gl' = Some(draw_gl(gl[1], window_width, window_height))
    /\ frame' = Some([draw_frame(RendererAtlas, window_width, url_text, focused,
                                 cursor_offset)
                        EXCEPT !.again = (frame # None)])
    /\ UNCHANGED <<urlbar_vars, forwarded, font, atlas, gl0>>

\* RedrawRequested: draw is given the field's text, whether it is focused
\* and, when it is, the cursor's character offset.
NextDraw ==
    \E w \in WindowWidths, t \in Texts(DrawChars, MaxDrawText) :
        \/ draw(w, 800, t, FALSE, None) /\ Direct
        \/ \E k \in 0..Len(t) : draw(w, 800, t, TRUE, Some(k)) /\ Direct

SpecDraw == InitDraw /\ [][NextDraw]_vars

\* ------------------------------------------------------------------------
\* Keyboard events (src/src/browser.rs, WindowEvent::KeyboardInput)
\*
\* An event is a record [state, key, ctrl, alt]; a key is a record
\* [kind, name, char]: a named key (kind "Named") or the character it
\* produces (kind "Character").  One web view exists.  The keyboard event
\* handed to it is kept in `forwarded`; the calls a handler makes (to the
\* engine, to the field, to the window) are kept in `calls`.
\* ------------------------------------------------------------------------
Named(name) == [kind |-> "Named", name |-> name, char |-> 0]

Character(c) == [kind |-> "Character", name |-> "", char |-> c]

\* The keys of the exploration: those the handler names, one it does not
\* (Tab), and three letters.
Keys ==
    { Named(n) : n \in {"Enter", "Escape", "Backspace", "Delete", "ArrowLeft",
                        "ArrowRight", "Home", "End", "F5", "Tab"} }
      \cup { Character(c) : c \in {Ch.a, Ch.l, Ch.r} }

\* Every press of a key with and without Ctrl and Alt, and its release;
\* 'l' and 'r' are pressed with Ctrl, the typed letter is 'a'.
KeyEvents ==
    { ev \in [state : {"Pressed", "Released"}, key : Keys, ctrl : BOOLEAN,
              alt : BOOLEAN] :
        /\ ev.state = "Released" => ~ev.ctrl /\ ~ev.alt
        /\ ev.key \in {Character(Ch.l), Character(Ch.r)}
              => ev.state = "Pressed" /\ ev.ctrl }

\* The event is a press of one of the given characters.
IsCharacterIn(ev, cs) == ev.key.kind = "Character" /\ ev.key.char \in cs

\* The handler returns without touching the field or the page's input.
Swallow ==
    /\ forwarded' = "Nothing"
    /\ UNCHANGED <<urlbar_vars, chrome_vars>>

\* webview.notify_input_event(InputEvent::Keyboard(keyboard_event))
Forward(ev) ==
    /\ forwarded' = ev.state
    /\ UNCHANGED <<urlbar_vars, chrome_vars>>

\* A call a handler makes, with the state of the RefCell around the field
\* at that moment: "free", "borrow" (a Ref is alive) or "borrow_mut" (a
\* RefMut is alive).  A method of the field is the call "urlbar".
Call(name, held) == [call |-> name, urlbar |-> held]

\* state.servo.spin_event_loop(), the first statement of window_event and
\* the only one of user_event.
Spin == Call("spin_event_loop", "free")

\* The calls into the engine, which may run delegate callbacks.
EngineCalls ==
    {"spin_event_loop", "paint", "load", "reload", "go_back", "go_forward",
     "notify_input_event"}

\* The event loop ran the handler `name`, which made the calls cs.
Handled(name, cs) ==
    /\ entry' = [name |-> name, urlbar |-> "free"]
    /\ calls' = cs
    /\ UNCHANGED <<phase, page_url, adblock, request>>

\* The global shortcuts other than Ctrl+L: Ctrl+R, F5, Alt+Left, Alt+Right.
IsWebViewShortcut(ev) ==
    \/ ev.ctrl /\ IsCharacterIn(ev, {Ch.r, Ch.R})
    \/ ev.key = Named("F5")
    \/ ev.alt /\ ev.key = Named("ArrowLeft")
    \/ ev.alt /\ ev.key = Named("ArrowRight")

\* The command a global shortcut gives to the web view.
WebViewCommand(ev) ==
    IF ev.ctrl /\ IsCharacterIn(ev, {Ch.r, Ch.R}) THEN "reload"
    ELSE IF ev.key = Named("F5") THEN "reload"
    ELSE IF ev.alt /\ ev.key = Named("ArrowLeft") THEN "go_back"
    ELSE "go_forward"

\* The focused field consumes a pressed key.
FocusedKey(ev) ==
    CASE ev.key = Named("Enter") -> submit
      [] ev.key = Named("Escape") -> unfocus
      [] ev.key = Named("Backspace") -> backspace
      [] ev.key = Named("Delete") -> delete
      [] ev.key = Named("ArrowLeft") -> move_cursor_left
      [] ev.key = Named("ArrowRight") -> move_cursor_right
      [] ev.key = Named("Home") -> home
      [] ev.key = Named("End") -> end
      [] ev.key.kind = "Character" ->
            IF ev.ctrl /\ ev.key.char \in {Ch.a, Ch.A} THEN select_all
            ELSE IF ~ev.ctrl /\ ~ev.alt THEN insert_char(ev.key.char)
            ELSE Swallow
      [] OTHER -> Swallow

\* Variant: the RefMut is still alive when Enter calls webview.load(url).
FocusedKeyCalls_load_while_borrowed(ev, submitted) ==
    <<Spin, Call("urlbar", "borrow_mut")>>
      \o (IF ev.key = Named("Enter") /\ submitted # None
          THEN <<Call("load", "borrow_mut")>> ELSE <<>>)
      \o <<Call("request_redraw", "borrow_mut")>>

\* What the focused branch calls: the RefMut `urlbar` taken at its start
\* lives to its end, except after Enter on a text that resolves, where it
\* is dropped before webview.load(url).
FocusedKeyCalls(ev, submitted) ==
    LET method ==
            \/ ev.key \in { Named(n) : n \in {"Enter", "Escape", "Backspace",
                                              "Delete", "ArrowLeft",
                                              "ArrowRight", "Home", "End"} }
            \/ /\ ev.key.kind = "Character"
               /\ \/ ev.ctrl /\ ev.key.char \in {Ch.a, Ch.A}
                  \/ ~ev.ctrl /\ ~ev.alt
    IN  <<Spin>>
          \o (IF method THEN <<Call("urlbar", "borrow_mut")>> ELSE <<>>)
          \o (IF ev.key = Named("Enter") /\ submitted # None
              THEN <<Call("load", "free"), Call("request_redraw", "free")>>
              ELSE <<Call("request_redraw", "borrow_mut")>>)

\* Variant: the focused field is served before the global shortcuts.
KeyboardInput_field_first(ev) ==
    IF phase # "Running" THEN Swallow /\ Handled("KeyboardInput", <<>>)
    ELSE IF is_focused /\ ev.state = "Pressed"
    THEN /\ FocusedKey(ev)
         /\ Handled("KeyboardInput", FocusedKeyCalls(ev, ret'))
    ELSE IF ev.state = "Pressed" /\ ev.ctrl /\ IsCharacterIn(ev, {Ch.l, Ch.L})
    THEN /\ focus_bar
         /\ Handled("KeyboardInput",
                    <<Spin, Call("urlbar", "borrow_mut"),
                      Call("request_redraw", "free")>>)
    ELSE IF ev.state = "Pressed" /\ IsWebViewShortcut(ev)
    THEN /\ Swallow
         /\ Handled("KeyboardInput", <<Spin, Call(WebViewCommand(ev), "free")>>)
    ELSE /\ Forward(ev)
         /\ Handled("KeyboardInput",
                    <<Spin, Call("notify_input_event", "free")>>)

\* WindowEvent::KeyboardInput { event, .. }
KeyboardInput(ev) ==
    IF phase # "Running" THEN Swallow /\ Handled("KeyboardInput", <<>>)
    ELSE IF ev.state = "Pressed" /\ ev.ctrl /\ IsCharacterIn(ev, {Ch.l, Ch.L})
    THEN /\ focus_bar
         /\ Handled("KeyboardInput",
                    <<Spin, Call("urlbar", "borrow_mut"),
                      Call("request_redraw", "free")>>)
    ELSE IF ev.state = "Pressed" /\ IsWebViewShortcut(ev)
    THEN /\ Swallow
         /\ Handled("KeyboardInput", <<Spin, Call(WebViewCommand(ev), "free")>>)
    ELSE IF is_focused /\ ev.state = "Pressed"
    THEN /\ FocusedKey(ev)
         /\ Handled("KeyboardInput", FocusedKeyCalls(ev, ret'))
    ELSE /\ Forward(ev)
         /\ Handled("KeyboardInput",
                    <<Spin, Call("notify_input_event", "free")>>)

\* Variant: a click in the page unfocuses the field and asks for no redraw.
MouseInput_no_redraw(in_chrome, btn_state, button) ==
    IF phase # "Running" THEN Swallow /\ Handled("MouseInput", <<>>)
    ELSE IF in_chrome
    THEN IF btn_state = "Pressed" /\ button = "Left"
         THEN /\ focus_bar
              /\ Handled("MouseInput",
                         <<Spin, Call("urlbar", "borrow_mut"),
                           Call("request_redraw", "free")>>)
         ELSE Swallow /\ Handled("MouseInput", <<Spin>>)
    ELSE IF btn_state = "Pressed" /\ is_focused
    THEN /\ unfocus
         /\ Handled("MouseInput",
                    <<Spin, Call("urlbar", "borrow_mut"),
                      Call("notify_input_event", "free")>>)
    ELSE /\ Swallow
         /\ Handled("MouseInput", <<Spin, Call("notify_input_event", "free")>>)

\* WindowEvent::MouseInput { state, button, .. }, the pointer being in the
\* chrome area (pos.y < chrome_h) or below it.
MouseInput(in_chrome, btn_state, button) ==
    IF phase # "Running" THEN Swallow /\ Handled("MouseInput", <<>>)
    ELSE IF in_chrome
    THEN IF btn_state = "Pressed" /\ button = "Left"
         THEN /\ focus_bar
              /\ Handled("MouseInput",
                         <<Spin, Call("urlbar", "borrow_mut"),
                           Call("request_redraw", "free")>>)
         ELSE Swallow /\ Handled("MouseInput", <<Spin>>)
    ELSE IF btn_state = "Pressed" /\ is_focused
    THEN /\ unfocus
         /\ Handled("MouseInput",
                    <<Spin, Call("urlbar", "borrow_mut"),
                      Call("request_redraw", "free"),
                      Call("notify_input_event", "free")>>)
    ELSE /\ Swallow
         /\ Handled("MouseInput", <<Spin, Call("notify_input_event", "free")>>)

\* The mouse events of the exploration.
MouseButtons == {"Left", "Right"}

\* ------------------------------------------------------------------------
\* Request filtering (src/src/privacy.rs) and the delegate callbacks
\* (src/src/servo_glue.rs)
\*
\* A filter rule blocks one URL for the request types it names; a filter
\* list is a set of rules.  The engine is a record [rules, cache], the
\* cache a function from (url, source_url) to the remembered answer.
\* ------------------------------------------------------------------------
\* Filter lists the engine may have been built from: a rule that applies to
\* every request type, and a rule that applies to "other" requests only.
FilterLists ==
    { {[url |-> as_str(U_idn), types |-> {"document", "other"}]},
      {[url |-> as_str(U_idn), types |-> {"other"}]} }

EmptyCache == [key \in {} |-> FALSE]

\* AdblockEngine::new(), given a filter list that is not empty.
NewEngine(rules) == [rules |-> rules, cache |-> EmptyCache]

\* Request::new(..) and Engine::check_network_request(..).matched; every
\* request URL of the model parses, so that Request::new succeeds.
check_network_request(rules, url, source_url, request_type) ==
    \E r \in rules : r.url = url /\ request_type \in r.types

\* AdblockEngine::should_block: the answer, and the engine afterwards.
should_block(engine, url, source_url, request_type) ==
    LET key == <<url, source_url>>
        blocked == check_network_request(engine.rules, url, source_url,
                                         request_type)
    IN  IF key \in DOMAIN engine.cache
        THEN [blocked |-> engine.cache[key], engine |-> engine]
        ELSE [blocked |-> blocked,
              engine |-> [engine EXCEPT !.cache =
                            [k \in DOMAIN engine.cache \cup {key} |->
                                IF k = key THEN blocked ELSE engine.cache[k]]]]

\* Variant: clear_cache leaves the entries in place.
clear_cache_keeps_entries(engine) == engine

\* AdblockEngine::clear_cache
clear_cache(engine) == [engine EXCEPT !.cache = EmptyCache]

\* The states of the field's RefCell a delegate callback can be run in:
\* that of user_event's spin_event_loop, and those of the calls into the
\* engine the last handler made.
HeldByEngine ==
    {"free"} \cup { calls[i].urlbar :
                      i \in {j \in DOMAIN calls : calls[j].call \in EngineCalls} }

\* ServoDelegate::notify_url_changed, run while the field's RefCell is in
\* the state `held`: borrow_mut() panics on a borrowed RefCell, and
\* catch_unwind then drops the rest of the callback.
notify_url_changed(url, held) ==
    /\ phase = "Running"
    /\ entry' = [name |-> "notify_url_changed", urlbar |-> held]
    /\ IF held = "free"
       THEN /\ set_url(url)
            /\ page_url' = Some(url)
            /\ adblock' = IF adblock = None THEN None
                          ELSE Some(clear_cache(adblock[1]))
       ELSE Swallow /\ UNCHANGED <<page_url, adblock>>
    /\ UNCHANGED <<phase, calls, request>>

\* Variant: the field is given the URL only once the engine has let the
\* request through.
load_web_resource_after_decision(url, is_for_main_frame, held) ==
    LET conflict == is_for_main_frame /\ held # "free"
        source_url == IF page_url = None THEN <<>> ELSE as_str(page_url[1])
        request_type == IF is_for_main_frame THEN "document" ELSE "other"
        consulted == ~conflict /\ adblock # None
        answer == should_block(adblock[1], as_str(url), source_url,
                               request_type)
        cancelled == consulted /\ answer.blocked
    IN  /\ phase = "Running"
        /\ entry' = [name |-> "load_web_resource", urlbar |-> held]
        /\ IF is_for_main_frame /\ ~conflict /\ ~cancelled THEN set_url(url)
           ELSE Swallow
        /\ adblock' = IF consulted THEN Some(answer.engine) ELSE adblock
        /\ request' = Some([url |-> url,
                            is_for_main_frame |-> is_for_main_frame,
                            source_url |-> source_url,
                            request_type |-> request_type,
                            consulted |-> consulted,
                            cancelled |-> cancelled])
        /\ UNCHANGED <<phase, calls, page_url>>

\* ServoDelegate::load_web_resource for a request of `url`; the request is
\* cancelled when the engine answers that it is blocked.
load_web_resource(url, is_for_main_frame, held) ==
    LET conflict == is_for_main_frame /\ held # "free"
        source_url == IF page_url = None THEN <<>> ELSE as_str(page_url[1])
        request_type == IF is_for_main_frame THEN "document" ELSE "other"
        consulted == ~conflict /\ adblock # None
        answer == should_block(adblock[1], as_str(url), source_url,
                               request_type)
    IN  /\ phase = "Running"
        /\ entry' = [name |-> "load_web_resource", urlbar |-> held]
        /\ IF is_for_main_frame /\ ~conflict THEN set_url(url) ELSE Swallow
        /\ adblock' = IF consulted THEN Some(answer.engine) ELSE adblock
        /\ request' = Some([url |-> url,
                            is_for_main_frame |-> is_for_main_frame,
                            source_url |-> source_url,
                            request_type |-> request_type,
                            consulted |-> consulted,
                            cancelled |-> consulted /\ answer.blocked])
        /\ UNCHANGED <<phase, calls, page_url>>

NextKeys ==
    \/ \E ev \in KeyEvents : KeyboardInput(ev)
    \/ \E in_chrome \in BOOLEAN, btn_state \in {"Pressed", "Released"},
          button \in MouseButtons : MouseInput(in_chrome, btn_state, button)
    \/ \E url \in Urls, held \in HeldByEngine : notify_url_changed(url, held)

SpecKeys == Init /\ [][NextKeys]_vars

\* Resource loads: the engine reports requests and URL changes while the
\* user clicks in the chrome area and in the page.  A filter list may have
\* been found at start-up or not.
InitLoads ==
    /\ NewUrlBar
    /\ engine_url = DUCKDUCKGO_SEARCH
    /\ forwarded = "Nothing"
    /\ NoChrome
    /\ phase = "Running"
    /\ entry = [name |-> "resumed", urlbar |-> "free"]
    /\ calls = <<>>
    /\ page_url = None
    /\ adblock \in {None} \cup { Some(NewEngine(rules)) : rules \in FilterLists }
    /\ request = None

NextLoads ==
    \/ \E url \in Urls, is_for_main_frame \in BOOLEAN, held \in HeldByEngine :
          load_web_resource(url, is_for_main_frame, held)
    \/ \E url \in Urls, held \in HeldByEngine : notify_url_changed(url, held)
    \/ \E in_chrome \in BOOLEAN, btn_state \in {"Pressed", "Released"} :
          MouseInput(in_chrome, btn_state, "Left")

SpecLoads == InitLoads /\ [][NextLoads]_vars

\* ------------------------------------------------------------------------
\* The application (src/src/browser.rs, ApplicationHandler for App)
\*
\* Before the first resumed() no window, engine or field exists: the
\* variables then hold the values of a new field and no renderer.  A
\* delegate callback the engine runs from inside spin_event_loop or another
\* of its calls is a step of its own.
\* ------------------------------------------------------------------------
\* App::new: the Initial phase.
InitApp ==
    /\ NewUrlBar
    /\ engine_url = DUCKDUCKGO_SEARCH
    /\ forwarded = "Nothing"
    /\ NoChrome
    /\ phase = "Initial"
    /\ entry = [name |-> "new", urlbar |-> "free"]
    /\ calls = <<>>
    /\ page_url = None
    /\ adblock = None
    /\ request = None

\* The context of a new window: no flag is enabled.
FreshContext ==
    CHOOSE g \in Contexts : ~g.blend /\ ~g.depth_test /\ ~g.scissor_test

\* Steps 1 to 7 of resumed(): window, rendering contexts, renderer, engine,
\* a new field and the web view.  resources/filters/ holds no filter list,
\* so that AdblockEngine::new() returns None (SpecLoads explores the filter
\* engine).
create_app ==
    /\ phase' = "Running"
    /\ entry' = [name |-> "resumed", urlbar |-> "free"]
    /\ calls' = <<>>
    /\ text' = <<>>
    /\ cursor' = 0
    /\ focus' = "Unfocused"
    /\ current_url' = None
    /\ panicked' = FALSE
    /\ ret' = None
    /\ op' = "new"
    /\ arg' = 0
    /\ arg_url' = None
    /\ pre' = [focus |-> "Unfocused", len |-> 0]
    /\ repeated' = FALSE
    /\ forwarded' = "Nothing"
    /\ gl' = Some(FreshContext)
    /\ gl0' = gl'
    /\ frame' = None
    /\ page_url' = None
    /\ adblock' = None
    /\ request' = None
    /\ UNCHANGED <<engine_url, font, atlas>>

\* Variant: resumed() builds everything anew whatever the phase is.
resumed_always_creates == create_app

\* ApplicationHandler::resumed
resumed ==
    IF phase = "Running" THEN Swallow /\ Handled("resumed", <<>>)
    ELSE create_app

\* ApplicationHandler::user_event
user_event ==
    /\ Swallow
    /\ Handled("user_event", IF phase = "Running" THEN <<Spin>> ELSE <<>>)

\* WindowEvent::CloseRequested
CloseRequested ==
    /\ Swallow
    /\ Handled("CloseRequested",
               (IF phase = "Running" THEN <<Spin>> ELSE <<>>)
                 \o <<Call("exit", "free")>>)

\* WindowEvent::RedrawRequested, in the window resumed() created.
RedrawRequested ==
    IF phase # "Running" THEN Swallow /\ Handled("RedrawRequested", <<>>)
    ELSE /\ draw(1280, 800, display_text, is_focused,
                 IF is_focused THEN Some(cursor_char_offset) ELSE None)
         /\ Handled("RedrawRequested",
                    <<Spin, Call("paint", "free"), Call("draw", "borrow"),
                      Call("present", "borrow")>>)

\* The key events of the application's exploration: Ctrl+L, F5, a typed
\* letter and its release, and Enter.
AppKeyEvents ==
    { [state |-> "Pressed", key |-> Character(Ch.l), ctrl |-> TRUE, alt |-> FALSE],
      [state |-> "Pressed", key |-> Named("F5"), ctrl |-> FALSE, alt |-> FALSE],
      [state |-> "Pressed", key |-> Character(Ch.a), ctrl |-> FALSE, alt |-> FALSE],
      [state |-> "Released", key |-> Character(Ch.a), ctrl |-> FALSE, alt |-> FALSE],
      [state |-> "Pressed", key |-> Named("Enter"), ctrl |-> FALSE, alt |-> FALSE] }

\* The engine reports the URL of one page and its main-frame request.
NextApp ==
    \/ resumed
    \/ user_event
    \/ CloseRequested
    \/ RedrawRequested
    \/ \E ev \in AppKeyEvents : KeyboardInput(ev)
    \/ \E in_chrome \in BOOLEAN : MouseInput(in_chrome, "Pressed", "Left")
    \/ \E held \in HeldByEngine : notify_url_changed(U_plain, held)
    \/ \E held \in HeldByEngine : load_web_resource(U_plain, TRUE, held)

SpecApp == InitApp /\ [][NextApp]_vars

\* The global shortcuts in every mode of the field: each of them with and
\* without the other modifier, a typed letter, Escape, and the URL of a page.
ShortcutEvents ==
    { ev \in KeyEvents :
        /\ ev.state = "Pressed"
        /\ \/ ev.key \in {Character(Ch.l), Character(Ch.r), Named("F5")}
           \/ ev.key \in {Named("ArrowLeft"), Named("ArrowRight")} /\ ev.alt
           \/ ev.key \in {Character(Ch.a), Named("Escape")}
                /\ ~ev.ctrl /\ ~ev.alt }

NextShortcuts ==
    \/ \E ev \in ShortcutEvents : KeyboardInput(ev)
    \/ \E held \in HeldByEngine : notify_url_changed(U_plain, held)

SpecShortcuts == Init /\ [][NextShortcuts]_vars

\* Input resolution alone: submit applied to every typed text.
NextResolve == submit /\ Direct

SpecResolve == InitResolve /\ [][NextResolve]_vars

\* ------------------------------------------------------------------------
\* Vocabulary of the properties
\* ------------------------------------------------------------------------
\* The text is empty or whitespace only.
OnlyWhitespace(s) == \A i \in 1..Len(s) : IsWhitespace(s[i])

\* Some character of s is whitespace (of any kind).
HasWhitespace(s) == \E i \in 1..Len(s) : IsWhitespace(s[i])

\* application/x-www-form-urlencoded decoding, to bytes.
RECURSIVE FormDecode(_)
FormDecode(q) ==
    IF q = <<>> THEN <<>>
    ELSE IF Head(q) = Ch.plus THEN <<Ch.space>> \o FormDecode(Tail(q))
    ELSE IF Head(q) = Ch.percent /\ Len(q) >= 3
         THEN <<16 * HexValue(q[2]) + HexValue(q[3])>> \o FormDecode(Drop(q, 3))
    ELSE <<Head(q)>> \o FormDecode(Tail(q))

\* r is a destination at the search engine `prefix` whose query decodes to
\* the bytes of input.
IsSearchResult(r, prefix, input) ==
    /\ r # None
    /\ StartsWith(as_str(r[1]), prefix)
    /\ FormDecode(Drop(as_str(r[1]), Len(prefix))) = Utf8(input)

\* The domain the user typed: the text up to the first ':', '/', '?', '#'.
TypedDomain(input) ==
    Take(input, FirstIn(input, {Ch.colon, Ch.slash, Ch.qmark, Ch.hash}) - 1)

\* The ASCII form of a typed domain: each label lowercased, or
\* Punycode-encoded behind "xn--" when it is not ASCII.
AsciiDomain(d) ==
    LET ls == SplitDot(d)
    IN  JoinDot([i \in 1..Len(ls) |-> ToAsciiLabel(ls[i])])

\* p occurs in s as a contiguous substring.
IsSubstring(p, s) ==
    \E i \in 0..(Len(s) - Len(p)) : \A j \in 1..Len(p) : s[i + j] = p[j]

\* The text was derived from a URL by the last operation.
TextDerivedFromUrl ==
    \/ op = "set_url" /\ pre.focus = "Unfocused"
    \/ op = "unfocus" /\ current_url # None

\* The warning marker of the display form, and the word naming Punycode.
S_marker == <<9888, 65039>>

S_Punycode == <<80, 117, 110, 121, 99, 111, 100, 101>>

\* What the display form of url has to be: marker, full URL string and the
\* word "Punycode" for an "xn--" host; the URL string itself for another
\* host when that string has no invisible character.
DisplayFormOk(url, shown) ==
    /\ StartsWith(host_str(url), S_xn)
         => /\ IsSubstring(S_marker, shown)
            /\ IsSubstring(as_str(url), shown)
            /\ IsSubstring(S_Punycode, shown)
    /\ (~StartsWith(host_str(url), S_xn)
          /\ \A i \in 1..Len(as_str(url)) : as_str(url)[i] \notin InvisibleChars)
         => shown = as_str(url)

\* ------------------------------------------------------------------------
\* C1
\* ------------------------------------------------------------------------
\* C1: in every reachable state the cursor byte offset is between 0 and the
\* byte length of the text and lies on a character boundary of the text.
C1_CursorOnCharBoundary ==
    /\ cursor >= 0
    /\ cursor <= ByteLen(text)
    /\ is_char_boundary(text, cursor)

\* A two-byte character precedes the cursor, which stands inside the text.
C1_Witness ==
    /\ Len(text) >= 2
    /\ text[1] = Ch.eacute
    /\ cursor = len_utf8(Ch.eacute)
    /\ cursor < ByteLen(text)
    /\ op = "move_cursor_right"

\* ------------------------------------------------------------------------
\* C2
\* ------------------------------------------------------------------------
\* C2: insert_char(c) called in focused-selected mode leaves the text equal
\* to the single character c, the cursor at c's encoded byte length and the
\* mode editing, whatever the text was.
C2_ReplaceOnType ==
    (op = "insert_char" /\ pre.focus = "Focused")
        => /\ text = <<arg>>
           /\ cursor = len_utf8(arg)
           /\ focus = "Editing"

\* A character typed in focused-selected mode over a text of two or more
\* characters.
C2_Witness ==
    /\ op = "insert_char"
    /\ pre.focus = "Focused"
    /\ pre.len >= 2
    /\ Len(text) = 1

\* ------------------------------------------------------------------------
\* C3
\* ------------------------------------------------------------------------
\* C3: every set_url(url) step records url as the current URL and keeps the
\* mode; called in unfocused mode it sets the text to the display form of
\* url with the cursor at its end; called in focused-selected or editing
\* mode it leaves text and cursor unchanged.
C3_SetUrlNeverInterruptsEditing ==
    [][ op' = "set_url"
          => /\ arg_url' # None
             /\ current_url' = arg_url'
             /\ focus' = focus
             /\ focus = "Unfocused"
                  => /\ text' = normalize_url_for_display(arg_url'[1])
                     /\ cursor' = ByteLen(text')
             /\ focus # "Unfocused"
                  => /\ text' = text
                     /\ cursor' = cursor ]_vars

\* set_url arrived while the user was editing: the URL is recorded and the
\* text is not its display form.
C3_Witness ==
    /\ op = "set_url"
    /\ pre.focus = "Editing"
    /\ focus = "Editing"
    /\ current_url = arg_url
    /\ current_url # None
    /\ text # normalize_url_for_display(current_url[1])

\* ------------------------------------------------------------------------
\* C4
\* ------------------------------------------------------------------------
\* C4: every unfocus() step ends in unfocused mode; with a URL recorded the
\* text becomes the display form of that URL and the cursor goes to its
\* end; with no URL recorded text and cursor stay as they were.
C4_UnfocusRestoresUrl ==
    [][ op' = "unfocus"
          => /\ focus' = "Unfocused"
             /\ current_url' = current_url
             /\ current_url # None
                  => /\ text' = normalize_url_for_display(current_url[1])
                     /\ cursor' = ByteLen(text')
             /\ current_url = None
                  => /\ text' = text
                     /\ cursor' = cursor ]_vars

\* unfocus() called while editing a typed text with a URL recorded: the
\* typed text is gone and the URL's display form is shown.
C4_Witness ==
    /\ op = "unfocus"
    /\ pre.focus = "Editing"
    /\ pre.len \in 1..MaxLen
    /\ current_url # None
    /\ text = normalize_url_for_display(current_url[1])
    /\ cursor = ByteLen(text)
    /\ focus = "Unfocused"

\* ------------------------------------------------------------------------
\* C5
\* ------------------------------------------------------------------------
\* C5 as stated: after every call to submit(), also one on an empty or
\* whitespace-only text, the field is in unfocused mode.
C5_SubmitAlwaysUnfocuses == op = "submit" => focus = "Unfocused"

\* C5 amended: a submit() step on a text that is not empty after trimming
\* ends in unfocused mode whether or not it returns a destination; on an
\* empty or whitespace-only text it returns no result and leaves the mode
\* as it was.
C5_SubmitUnfocusesUnlessBlank ==
    [][ op' = "submit"
          => IF OnlyWhitespace(text)
             THEN focus' = focus /\ ret' = None
             ELSE focus' = "Unfocused" ]_vars

\* submit() on a typed text took the field from editing to unfocused.
C5_Witness ==
    /\ op = "submit"
    /\ pre.focus = "Editing"
    /\ pre.len >= 1
    /\ focus = "Unfocused"
    /\ ret # None

\* ------------------------------------------------------------------------
\* C6
\* ------------------------------------------------------------------------
\* C6: a submit() step on an empty or whitespace-only text returns no
\* destination and does not panic.
C6_BlankSubmitReturnsNone ==
    [][ (op' = "submit" /\ OnlyWhitespace(text))
          => (ret' = None /\ ~panicked') ]_vars

\* submit() was called on a text of two or more whitespace characters.
C6_Witness ==
    /\ op = "submit"
    /\ Len(text) >= 2
    /\ OnlyWhitespace(text)
    /\ Ch.tab \in Range(text)
    /\ ret = None

\* ------------------------------------------------------------------------
\* C7
\* ------------------------------------------------------------------------
\* C7 as stated: a submitted text that contains a '.' and a whitespace
\* character of any kind inside it, and is not an http/https URL, is
\* resolved by the search fallback, never by the https:// domain rule.
C7_AnyWhitespaceMeansSearch ==
    LET input == Trim(text)
    IN  (/\ op = "submit"
         /\ Contains(input, Ch.dot)
         /\ HasWhitespace(input)
         /\ ~ParsesAsHttpUrl(input))
            => IsSearchResult(ret, DUCKDUCKGO_SEARCH, input)

\* C7 amended: a submitted text that contains a '.' and a space (U+0020)
\* inside it, and is not an http/https URL, is resolved by the search
\* fallback, never by the https:// domain rule.
C7_SpaceMeansSearch ==
    LET input == Trim(text)
    IN  (/\ op = "submit"
         /\ Contains(input, Ch.dot)
         /\ Contains(input, Ch.space)
         /\ ~ParsesAsHttpUrl(input))
            => IsSearchResult(ret, DUCKDUCKGO_SEARCH, input)

\* A text with a '.' and an inner space was submitted that would be a
\* valid URL behind "https://": only the space test sends it to search.
C7_Witness ==
    LET input == Trim(text)
    IN  /\ op = "submit"
        /\ Contains(input, Ch.dot)
        /\ Contains(input, Ch.space)
        /\ ~ParsesAsHttpUrl(input)
        /\ ParseUrl(S_https_prefix \o input) # <<>>
        /\ ret # None

C9_SearchUsesConfiguredEngine ==
    LET input == Trim(text)
    IN  (/\ op = "submit"
         /\ input # <<>>
         /\ ~Contains(input, Ch.dot)
         /\ ~ParsesAsHttpUrl(input))
            => IsSearchResult(ret, engine_url, input)

\* ------------------------------------------------------------------------
\* C10
\* ------------------------------------------------------------------------
\* C10: in every reachable state cursor_char_offset() is the number k of
\* characters of the text that precede the cursor: the first k characters
\* occupy exactly the cursor's byte offset.
C10_CharOffsetCountsCharacters ==
    /\ cursor_char_offset \in 0..Len(text)
    /\ ByteLen(Take(text, cursor_char_offset)) = cursor

\* After a deletion the cursor stands behind a two-byte character, so the
\* character offset and the byte offset differ.
C10_Witness ==
    /\ op \in {"backspace", "delete"}
    /\ cursor > 0
    /\ Ch.eacute \in Range(Take(text, cursor_char_offset))
    /\ cursor_char_offset < cursor

\* ------------------------------------------------------------------------
\* C11
\* ------------------------------------------------------------------------
\* C11: whenever the text was derived from a URL (set_url in unfocused mode,
\* or unfocus with a URL recorded) it contains none of the invisible
\* characters, also when the URL was written with such a character and its
\* host takes the warning branch.
C11_NoInvisibleCharInDisplay ==
    TextDerivedFromUrl => \A i \in 1..Len(text) : text[i] \notin InvisibleChars

\* The URL written "http://e-acute/" followed by a zero-width space arrived
\* in unfocused mode: its host is an "xn--" host, the warning branch built
\* the text, and the zero-width space is in it as a percent escape.
C11_Witness ==
    /\ op = "set_url"
    /\ pre.focus = "Unfocused"
    /\ arg_url = ParseUrl(S_http \o <<Ch.colon, Ch.slash, Ch.slash, Ch.eacute,
                                      Ch.slash, Ch.zwsp>>)
    /\ StartsWith(host_str(arg_url[1]), S_xn)
    /\ StartsWith(text, S_warning)
    /\ IsSubstring(Flatten([i \in 1..Len(Utf8Char(Ch.zwsp)) |->
                               PercentByte(Utf8Char(Ch.zwsp)[i])]), text)

C13_UnfocusIdempotent ==
    [][ (op = "unfocus" /\ op' = "unfocus")
          => /\ text' = text
             /\ cursor' = cursor
             /\ focus' = focus
             /\ current_url' = current_url ]_vars

\* unfocus() was called twice in a row with a URL recorded: the field
\* shows the URL's display form with the cursor at its end.
C13_Witness ==
    /\ op = "unfocus"
    /\ repeated
    /\ focus = "Unfocused"
    /\ current_url # None
    /\ text = normalize_url_for_display(current_url[1])
    /\ cursor = ByteLen(text)

\* ------------------------------------------------------------------------
\* C14
\* ------------------------------------------------------------------------
\* C14: after any sequence of draw calls the blend, depth-test and
\* scissor-test flags have the values they had before the first call,
\* whatever those were.
C14_DrawRestoresFlags ==
    frame # None
      => /\ gl[1].blend = gl0[1].blend
         /\ gl[1].depth_test = gl0[1].depth_test
         /\ gl[1].scissor_test = gl0[1].scissor_test

\* A second draw has returned in a context that had blending off and the
\* depth and scissor tests on: each flag is the opposite of what draw sets
\* while it runs.
C14_Witness ==
    /\ frame # None
    /\ frame[1].again
    /\ ~gl0[1].blend /\ gl0[1].depth_test /\ gl0[1].scissor_test
    /\ ~gl[1].blend /\ gl[1].depth_test /\ gl[1].scissor_test

\* ------------------------------------------------------------------------
\* C15
\* ------------------------------------------------------------------------
\* C15: every piece of context state draw sets (viewport, blend function,
\* current program, bound vertex array, array-buffer binding, active
\* texture unit, 2D texture binding and the enable flags) has its pre-call
\* value when draw returns.
C15_DrawRestoresAllState ==
    frame # None => gl = gl0

\* ------------------------------------------------------------------------
\* C16
\* ------------------------------------------------------------------------
\* The advance the claim gives character c: its glyph's, or the space
\* glyph's when the atlas does not have c.
ClaimedAdvance(c) ==
    IF c \in DOMAIN RendererAtlas.glyphs THEN RendererAtlas.glyphs[c].advance_x
    ELSE RendererAtlas.glyphs[Ch.space].advance_x

\* The pen position before the k-th character (from 1) of t.
RECURSIVE PenBefore(_, _)
PenBefore(t, k) ==
    IF k <= 1 THEN text_x ELSE PenBefore(t, k - 1) + ClaimedAdvance(t[k - 1])

\* The k-th character of t is within the field: no pen position up to it
\* is beyond the right padding boundary of a window w wide.
WithinField(t, k, w) == \A j \in 1..k : PenBefore(t, j) <= max_text_x(w)

\* C16: in what a draw call puts on screen, a character absent from the
\* atlas has no quad and moves the pen by the space glyph's advance, and
\* every character within the field is processed: the pen passes it, and
\* it has its quad if the atlas has a glyph of non-zero size for it.  With
\* an atlas that has no space glyph either, the advance is half the font
\* size.
C16_MissingGlyphNeverStopsText ==
    /\ MissingAdvance([glyphs |-> <<>>]) * 2 = ChromeConfig.font_size
    /\ frame # None
      => LET f == frame[1]
             t == f.url_text
         IN  \A k \in 1..Len(t) :
               /\ t[k] \notin DOMAIN RendererAtlas.glyphs
                    => \A q \in 1..Len(f.quads) : f.quads[q].char_idx # k - 1
               /\ WithinField(t, k, f.window_width)
                    => /\ Len(f.pens) >= k
                       /\ f.pens[k] = PenBefore(t, k) + ClaimedAdvance(t[k])
                       /\ (/\ t[k] \in DOMAIN RendererAtlas.glyphs
                            /\ RendererAtlas.glyphs[t[k]].width > 0
                            /\ RendererAtlas.glyphs[t[k]].height > 0)
                            => \E q \in 1..Len(f.quads) :
                                  /\ f.quads[q].char_idx = k - 1
                                  /\ f.quads[q].x = PenBefore(t, k)
                                        + RendererAtlas.glyphs[t[k]].offset_x

\* A text whose first character the atlas does not have, followed by a
\* letter, was drawn in the narrow window: nothing is drawn for the first,
\* the pen moved by the space advance, and the letter has its quad.
C16_Witness ==
    /\ frame # None
    /\ frame[1].url_text = <<Ch.eacute, Ch.a>>
    /\ frame[1].window_width < 100
    /\ Len(frame[1].quads) = 1
    /\ frame[1].quads[1].char_idx = 1
    /\ frame[1].pens[1] = text_x + RendererAtlas.glyphs[Ch.space].advance_x

\* ------------------------------------------------------------------------
\* C17
\* ------------------------------------------------------------------------
\* The box of the glyph of c in atlas at.
Box(at, c) == at.glyphs[c]

\* C17: every glyph's box lies within the atlas, for every rasterized
\* font: atlas_x + width <= atlas width and atlas_y + height <= atlas
\* height.
C17_GlyphsWithinAtlas ==
    atlas # None
      => \A c \in DOMAIN atlas[1].glyphs :
            /\ Box(atlas[1], c).atlas_x + Box(atlas[1], c).width <= atlas[1].width
            /\ Box(atlas[1], c).atlas_y + Box(atlas[1], c).height <= atlas[1].height

\* ------------------------------------------------------------------------
\* C18
\* ------------------------------------------------------------------------
\* Two boxes share a pixel position.
Overlap(g1, g2) ==
    /\ g1.atlas_x < g2.atlas_x + g2.width
    /\ g2.atlas_x < g1.atlas_x + g1.width
    /\ g1.atlas_y < g2.atlas_y + g2.height
    /\ g2.atlas_y < g1.atlas_y + g1.height

\* C18: no two distinct glyphs of non-zero width and height have
\* overlapping boxes, for every rasterized font.
C18_NoOverlappingGlyphs ==
    atlas # None
      => \A c, d \in DOMAIN atlas[1].glyphs :
            (/\ c # d
             /\ Box(atlas[1], c).width > 0 /\ Box(atlas[1], c).height > 0
             /\ Box(atlas[1], d).width > 0 /\ Box(atlas[1], d).height > 0)
              => ~Overlap(Box(atlas[1], c), Box(atlas[1], d))

\* An atlas of several rows: two glyphs of non-zero size start at the left
\* edge on different rows, and a third shares a row with one of them.
C18_Witness ==
    /\ atlas # None
    /\ \E c, d, e \in DOMAIN atlas[1].glyphs :
          /\ Box(atlas[1], c).width > 0 /\ Box(atlas[1], c).height > 0
          /\ Box(atlas[1], d).width > 0 /\ Box(atlas[1], d).height > 0
          /\ Box(atlas[1], e).width > 0 /\ Box(atlas[1], e).height > 0
          /\ Box(atlas[1], c).atlas_x = 0 /\ Box(atlas[1], d).atlas_x = 0
          /\ Box(atlas[1], c).atlas_y < Box(atlas[1], d).atlas_y
          /\ Box(atlas[1], e).atlas_y = Box(atlas[1], d).atlas_y
          /\ Box(atlas[1], e).atlas_x > 0

\* ------------------------------------------------------------------------
\* C19
\* ------------------------------------------------------------------------
\* C19: the atlas has exactly one entry for each of the 95 characters 32
\* to 126, its pixel buffer has width times height bytes, its width is 512
\* and its height at least 64.
C19_AtlasShape ==
    atlas # None
      => /\ DOMAIN atlas[1].glyphs = FIRST_CHAR..LAST_CHAR
         /\ Cardinality(DOMAIN atlas[1].glyphs) = 95
         /\ atlas[1].pixels_len = atlas[1].width * atlas[1].height
         /\ atlas[1].width = 512
         /\ atlas[1].height >= 64

\* Two atlases are reached: one of the minimum height (glyphs with nothing
\* to draw) and one that had to grow beyond it.
C19_Witness ==
    /\ atlas # None
    /\ atlas[1].height > 64
    /\ \E f \in Fonts : build(f).height = 64

\* ------------------------------------------------------------------------
\* C20
\* ------------------------------------------------------------------------
\* C20: a keyboard event, press or release, is handed to the web content
\* only when the field is unfocused, and then the field's text and cursor
\* stay as they were.
C20_FocusedFieldForwardsNoKey ==
    [][ forwarded' # "Nothing"
          => /\ focus = "Unfocused"
             /\ text' = text
             /\ cursor' = cursor ]_vars

\* ------------------------------------------------------------------------
\* C21
\* ------------------------------------------------------------------------
\* The seven edit and cursor operations.
EditOps == {"insert_char", "backspace", "delete", "move_cursor_left",
            "move_cursor_right", "home", "end"}

\* The per-character effect of operation name (with character c) on a text
\* t with k characters before the cursor: the new text and the new number
\* of characters before the cursor.
PerChar(name, c, t, k) ==
    CASE name = "insert_char" ->
           [text |-> Take(t, k) \o <<c>> \o Drop(t, k), chars |-> k + 1]
      [] name = "backspace" ->
           IF k = 0 THEN [text |-> t, chars |-> k]
           ELSE [text |-> Take(t, k - 1) \o Drop(t, k), chars |-> k - 1]
      [] name = "delete" ->
           IF k = Len(t) THEN [text |-> t, chars |-> k]
           ELSE [text |-> Take(t, k) \o Drop(t, k + 1), chars |-> k]
      [] name = "move_cursor_left" ->
           [text |-> t, chars |-> IF k = 0 THEN 0 ELSE k - 1]
      [] name = "move_cursor_right" ->
           [text |-> t, chars |-> IF k = Len(t) THEN k ELSE k + 1]
      [] name = "home" -> [text |-> t, chars |-> 0]
      [] name = "end" -> [text |-> t, chars |-> Len(t)]
      [] OTHER -> [text |-> t, chars |-> k]

\* C21: on a field that has never been focused, every edit or cursor
\* operation and every submit returns without a panic and leaves the text
\* and the cursor that the per-character effect of the operation gives
\* (submit: both as they were).
C21_UnfocusedEditIsPerChar ==
    [][ op' \in EditOps \cup {"submit"}
          => LET e == PerChar(op', arg', text, CharsBefore(text, cursor))
             IN  /\ ~panicked'
                 /\ text' = e.text
                 /\ cursor' = OffsetOf(e.text, e.chars) ]_vars

\* delete() on a never-focused field removed the character after the
\* cursor, leaving a two-byte character behind a cursor at 0.
C21_Witness ==
    /\ op = "delete"
    /\ focus = "Unfocused"
    /\ pre.focus = "Unfocused"
    /\ pre.len = 2
    /\ text = <<Ch.eacute>>
    /\ cursor = 0
    /\ ~panicked

\* ------------------------------------------------------------------------
\* C22
\* ------------------------------------------------------------------------
\* C22: after every step that ends in focused-selected mode the cursor is
\* at the byte length of the text; every focus() and select_all() step ends
\* in that mode with the text as it was and the cursor at its end; and a
\* step that starts and ends in that mode changes neither text nor cursor;
\* so move_cursor_right() called in that mode leaves the cursor at the end.
C22_SelectedCursorAtEnd ==
    [][ /\ focus' = "Focused" => cursor' = ByteLen(text')
        /\ op' \in {"focus", "select_all"}
             => /\ focus' = "Focused"
                /\ text' = text
                /\ cursor' = ByteLen(text)
        /\ (focus = "Focused" /\ focus' = "Focused")
             => /\ text' = text
                /\ cursor' = cursor
        /\ (focus = "Focused" /\ op' = "move_cursor_right")
             => cursor' = ByteLen(text') ]_vars

\* select_all() was called while editing a text of a one-byte and a
\* two-byte character: the mode is focused-selected and the cursor is at
\* byte 3, the end of the text.
C22_Witness ==
    /\ op = "select_all"
    /\ pre.focus = "Editing"
    /\ focus = "Focused"
    /\ text = <<Ch.a, Ch.eacute>>
    /\ cursor = 3

\* ------------------------------------------------------------------------
\* C23
\* ------------------------------------------------------------------------
\* C23: every submit() step leaves text and cursor as they were, and one
\* that returns a destination ends unfocused; the next set_url step, or the
\* next unfocus step with a URL recorded, then puts that URL's display form
\* in the field.
C23_SubmitKeepsTypedText ==
    [][ /\ op' = "submit"
             => /\ text' = text
                /\ cursor' = cursor
                /\ ret' # None => focus' = "Unfocused"
        /\ (op = "submit" /\ ret # None /\ op' = "set_url")
             => text' = normalize_url_for_display(arg_url'[1])
        /\ (op = "submit" /\ ret # None /\ op' = "unfocus" /\ current_url # None)
             => text' = normalize_url_for_display(current_url[1]) ]_vars

\* submit() returned a destination for a typed domain while a URL was
\* recorded: the field is unfocused and shows what was typed, which is
\* neither the destination nor the recorded URL.
C23_Witness ==
    /\ op = "submit"
    /\ pre.focus = "Editing"
    /\ focus = "Unfocused"
    /\ ret # None
    /\ text = <<Ch.a, Ch.dot, Ch.a>>
    /\ text # as_str(ret[1])
    /\ current_url # None
    /\ text # normalize_url_for_display(current_url[1])

\* ------------------------------------------------------------------------
\* C24
\* ------------------------------------------------------------------------
\* C24: after one of the seven edit and cursor operations called in
\* unfocused mode the mode is unfocused (is_focused() is false); a field
\* that was unfocused before the last operation and has the focus after it
\* was given it by focus() or select_all(); and when one of the seven
\* operations changed the mode, it changed it from focused-selected to
\* editing.
C24_EditKeepsUnfocused ==
    /\ (op \in EditOps /\ pre.focus = "Unfocused")
         => (focus = "Unfocused" /\ ~is_focused)
    /\ (pre.focus = "Unfocused" /\ is_focused)
         => op \in {"focus", "select_all"}
    /\ (op \in EditOps /\ focus # pre.focus)
         => (pre.focus = "Focused" /\ focus = "Editing")

\* A character was inserted while the field was unfocused: the text grew
\* and the field is still unfocused.
C24_Witness ==
    /\ op = "insert_char"
    /\ pre.focus = "Unfocused"
    /\ Len(text) = pre.len + 1
    /\ ~is_focused

\* ------------------------------------------------------------------------
\* C25
\* ------------------------------------------------------------------------
\* C25: after backspace() or delete() called in focused-selected mode the
\* text is empty, the cursor is 0 and the mode is editing, whatever the
\* text was and whichever of the two was called.
C25_DeleteSelectionClearsAll ==
    (op \in {"backspace", "delete"} /\ pre.focus = "Focused")
        => /\ text = <<>>
           /\ cursor = 0
           /\ focus = "Editing"
           /\ ~panicked

\* delete() was called in focused-selected mode on a text of two or more
\* characters, with the cursor at its end where there is nothing to
\* delete: the text is gone.
C25_Witness ==
    /\ op = "delete"
    /\ pre.focus = "Focused"
    /\ pre.len >= 2
    /\ text = <<>>
    /\ cursor = 0
    /\ focus = "Editing"

\* ------------------------------------------------------------------------
\* C26
\* ------------------------------------------------------------------------
\* C26: a backspace() step taken outside focused-selected mode with k > 0
\* characters before the cursor removes character k of the text and moves
\* the cursor back by that character's byte length, and with the cursor at
\* 0 changes nothing; a delete() step taken outside that mode with the
\* cursor before the end removes character k + 1 and leaves the cursor,
\* and with the cursor at the end changes nothing.  The remaining
\* characters keep their order, the mode stays, and neither panics.
C26_DeleteOneCharacter ==
    [][ (focus # "Focused" /\ op' \in {"backspace", "delete"})
          => LET k == CharsBefore(text, cursor)
             IN  /\ ~panicked'
                 /\ focus' = focus
                 /\ op' = "backspace"
                      => IF cursor = 0
                         THEN text' = text /\ cursor' = cursor
                         ELSE /\ text' = Take(text, k - 1) \o Drop(text, k)
                              /\ cursor' = cursor - len_utf8(text[k])
                 /\ op' = "delete"
                      => IF cursor = ByteLen(text)
                         THEN text' = text /\ cursor' = cursor
                         ELSE /\ text' = Take(text, k) \o Drop(text, k + 1)
                              /\ cursor' = cursor ]_vars

\* backspace() in editing mode removed the middle character of a text of
\* three: the cursor stands after the first character, before a two-byte
\* character that kept its place.
C26_Witness ==
    /\ op = "backspace"
    /\ pre.focus = "Editing"
    /\ pre.len = 3
    /\ text = <<Ch.a, Ch.eacute>>
    /\ cursor = 1

\* ------------------------------------------------------------------------
\* C27
\* ------------------------------------------------------------------------
\* C27: a move_cursor_left() or move_cursor_right() step never changes the
\* text.  Taken in focused-selected mode it ends in editing mode with the
\* cursor at 0 (left) or at the end of the text (right).  Taken in another
\* mode it keeps the mode and moves the cursor over exactly one character:
\* back by the byte length of the character before it, or not at all at 0
\* (left); forward by the byte length of the character after it, or not at
\* all at the end of the text (right).
C27_MoveOneCharacter ==
    [][ op' \in {"move_cursor_left", "move_cursor_right"}
          => LET k == CharsBefore(text, cursor)
             IN  /\ text' = text
                 /\ ~panicked'
                 /\ focus = "Focused"
                      => /\ focus' = "Editing"
                         /\ cursor' = IF op' = "move_cursor_left" THEN 0
                                      ELSE ByteLen(text)
                 /\ focus # "Focused"
                      => /\ focus' = focus
                         /\ op' = "move_cursor_left"
                              => cursor' = IF cursor = 0 THEN 0
                                           ELSE cursor - len_utf8(text[k])
                         /\ op' = "move_cursor_right"
                              => cursor' = IF cursor = ByteLen(text) THEN cursor
                                           ELSE cursor + len_utf8(text[k + 1]) ]_vars

\* move_cursor_left() was called in focused-selected mode on a text of
\* three characters: editing mode, cursor at 0, text as it was.
C27_Witness ==
    /\ op = "move_cursor_left"
    /\ pre.focus = "Focused"
    /\ pre.len = 3
    /\ Len(text) = 3
    /\ focus = "Editing"
    /\ cursor = 0

\* ------------------------------------------------------------------------
\* C28
\* ------------------------------------------------------------------------
\* C28: when a draw call painted a caret for the character offset k, the
\* caret's X is the left text offset plus the advances of the first k
\* characters of the text (the space advance for a character the atlas
\* does not have); a focused draw with k = 0 paints it at the left text
\* offset, whatever the text.
C28_CaretAfterKCharacters ==
    frame # None
      => LET f == frame[1]
         IN  /\ f.caret # None
                  => /\ f.cursor_offset # None
                     /\ f.cursor_offset[1] <= Len(f.url_text)
                     /\ f.caret[1] = PenBefore(f.url_text, f.cursor_offset[1] + 1)
             /\ (f.focused /\ f.cursor_offset = Some(0))
                  => f.caret = Some(text_x)

\* The caret was painted after both characters of a text whose first
\* character is a two-byte character the atlas does not have: its X is the
\* left offset plus the space advance plus the letter's advance.
C28_Witness ==
    /\ frame # None
    /\ frame[1].url_text = <<Ch.eacute, Ch.a>>
    /\ frame[1].focused
    /\ frame[1].cursor_offset = Some(2)
    /\ frame[1].caret = Some(text_x + RendererAtlas.glyphs[Ch.space].advance_x
                                    + RendererAtlas.glyphs[Ch.a].advance_x)

\* ------------------------------------------------------------------------
\* C29
\* ------------------------------------------------------------------------
\* C29: a draw call paints a caret exactly when it was told the field is
\* focused and the character offset k of the cursor is 0 or the text loop
\* processed character k before truncation stopped it; an unfocused draw
\* and a draw whose text is truncated before character k paint none.
C29_CaretIffReached ==
    frame # None
      => LET f == frame[1]
             reached ==
                /\ f.cursor_offset # None
                /\ \/ f.cursor_offset[1] = 0
                   \/ /\ f.cursor_offset[1] <= Len(f.url_text)
                      /\ WithinField(f.url_text, f.cursor_offset[1],
                                     f.window_width)
         IN  (f.caret # None) <=> (f.focused /\ reached)

\* A focused draw of two letters in the narrow window with the cursor at
\* the end of the text: the loop stopped before the second letter and no
\* caret was painted.
C29_Witness ==
    /\ frame # None
    /\ frame[1].url_text = <<Ch.a, Ch.a>>
    /\ frame[1].window_width < 100
    /\ frame[1].focused
    /\ frame[1].cursor_offset = Some(2)
    /\ Len(frame[1].pens) = 1
    /\ frame[1].caret = None

\* ------------------------------------------------------------------------
\* C30
\* ------------------------------------------------------------------------
\* C30: in what a draw call puts on screen, once the pen before character
\* k is beyond the right padding boundary, neither character k nor any
\* later one has a quad or moves the pen; the characters before that are
\* all processed, and the quads come in text order, each at the pen
\* position that the advances of the characters before it give (the pen
\* never returns to the left).
C30_TruncationStopsText ==
    frame # None
      => LET f == frame[1]
             t == f.url_text
             cut == {k \in 1..Len(t) : ~WithinField(t, k, f.window_width)}
             done == Len(t) - Cardinality(cut)
         IN  /\ \A k \in cut : \A j \in 1..Len(t) : j >= k => j \in cut
             /\ Len(f.pens) = done
             /\ \A q \in 1..Len(f.quads) :
                   /\ f.quads[q].char_idx + 1 \in (1..Len(t)) \ cut
                   /\ f.quads[q].x
                        = PenBefore(t, f.quads[q].char_idx + 1)
                            + RendererAtlas.glyphs[t[f.quads[q].char_idx + 1]].offset_x
                   /\ q > 1 => f.quads[q - 1].char_idx < f.quads[q].char_idx
             /\ \A k \in 1..done : f.pens[k] = PenBefore(t, k + 1)

\* Two letters were drawn in the narrow window, where a space followed by
\* a letter has the letter drawn with the pen exactly on the boundary: the
\* first letter moved the pen beyond the boundary and the second has no
\* quad.
C30_Witness ==
    /\ frame # None
    /\ frame[1].url_text = <<Ch.a, Ch.a>>
    /\ frame[1].window_width < 100
    /\ Len(frame[1].quads) = 1
    /\ Len(frame[1].pens) = 1
    /\ frame[1].pens[1] > max_text_x(frame[1].window_width)
    /\ LET g == draw_frame(RendererAtlas, frame[1].window_width,
                           <<Ch.space, Ch.a>>, FALSE, None)
       IN  /\ g.pens[1] = max_text_x(frame[1].window_width)
           /\ Len(g.quads) = 1

\* ------------------------------------------------------------------------
\* C37
\* ------------------------------------------------------------------------
\* The rasterization of a glyph has zero area.
ZeroArea(metrics) == metrics.width = 0 \/ metrics.height = 0

\* The packing loop over the characters from c on with the glyphs of zero
\* area left out.
RECURSIVE PackSkipping(_, _, _)
PackSkipping(st, c, rasterized) ==
    IF st.x >= 0 /\ c > LAST_CHAR THEN st
    ELSE PackSkipping(IF ZeroArea(rasterized[c]) THEN st
                      ELSE PlaceGlyph(st, c, rasterized[c]),
                      c + 1, rasterized)

\* The glyph of zero area is registered with zero width and height and
\* the rasterizer's advance.
ZeroAreaRegistered ==
    atlas # None
      => \A c \in AtlasChars :
            ZeroArea(font[1][c])
              => /\ c \in DOMAIN atlas[1].glyphs
                 /\ atlas[1].glyphs[c].width = 0
                 /\ atlas[1].glyphs[c].height = 0
                 /\ atlas[1].glyphs[c].advance_x = font[1][c].advance_width

\* C37: in the atlas of every rasterized font, a character of zero area is
\* registered with zero width, zero height and the rasterizer's advance,
\* and every other glyph is at the position it gets when the characters
\* of zero area are not packed at all.
C37_ZeroAreaTakesNoSpace ==
    /\ ZeroAreaRegistered
    /\ atlas # None
         => LET bare == PackSkipping(PackStart, FIRST_CHAR, font[1]).glyphs
            IN  \A d \in AtlasChars :
                   ~ZeroArea(font[1][d])
                     => /\ atlas[1].glyphs[d].atlas_x = bare[d].atlas_x
                        /\ atlas[1].glyphs[d].atlas_y = bare[d].atlas_y

\* ------------------------------------------------------------------------
\* C36
\* ------------------------------------------------------------------------
\* C36: the draw calls of every draw are, in this order: the rectangle of
\* the whole bar (window width by chrome height, from the top left) in the
\* focused background colour when is_focused and the unfocused one
\* otherwise; the field's border rectangle, inset by the margin; the
\* field's fill, the border rectangle inset by 1 on each side; one glyph
\* quad per drawn character, in text order; and the caret, last, when one
\* is painted.  Nothing else is drawn.
C36_DrawOrder ==
    frame # None
      => LET f == frame[1]
             c == f.calls
             n == Len(f.quads)
         IN  /\ Len(c) = 3 + n + (IF f.caret = None THEN 0 ELSE 1)
             /\ c[1] = [kind |-> "rect", x |-> 0, y |-> 0, w |-> f.window_width,
                        h |-> ChromeConfig.height,
                        color |-> IF f.focused THEN "background_focused"
                                  ELSE "background"]
             /\ c[2].kind = "rect" /\ c[2].color = "bar_border"
             /\ c[2].x = ChromeConfig.bar_margin /\ c[2].y = ChromeConfig.bar_margin
             /\ c[2].x + c[2].w = f.window_width - ChromeConfig.bar_margin
             /\ c[2].y + c[2].h = ChromeConfig.height - ChromeConfig.bar_margin
             /\ c[3] = [kind |-> "rect", x |-> c[2].x + 1, y |-> c[2].y + 1,
                        w |-> c[2].w - 2, h |-> c[2].h - 2,
                        color |-> "bar_background"]
             /\ \A q \in 1..n :
                   /\ c[3 + q].kind = "glyph"
                   /\ c[3 + q].char_idx = f.quads[q].char_idx
                   /\ c[3 + q].x = f.quads[q].x
                   /\ q > 1 => c[3 + q - 1].char_idx < c[3 + q].char_idx
             /\ f.caret # None
                  => /\ c[Len(c)].kind = "rect"
                     /\ c[Len(c)].color = "cursor"
                     /\ c[Len(c)].x = f.caret[1]
                     /\ c[Len(c)].w = 2

\* A focused draw of two letters with the cursor between them: six draw
\* calls, the caret after the two glyph quads although its X lies between
\* theirs.
C36_Witness ==
    /\ frame # None
    /\ frame[1].focused
    /\ frame[1].url_text = <<Ch.a, Ch.a>>
    /\ frame[1].cursor_offset = Some(1)
    /\ Len(frame[1].calls) = 6
    /\ frame[1].calls[1].color = "background_focused"
    /\ frame[1].calls[6].color = "cursor"
    /\ frame[1].calls[6].x < frame[1].calls[5].x

\* ------------------------------------------------------------------------
\* C33
\* ------------------------------------------------------------------------
\* C33: a main-frame load_web_resource records the request URL in the field,
\* and shows it when the field is unfocused, whether the request is then
\* cancelled by the filter engine or not; a load that is not for the main
\* frame leaves the field as it was.
C33_MainFrameLoadUpdatesField ==
    [][ entry'.name = "load_web_resource" =>
          IF request'[1].is_for_main_frame
          THEN /\ current_url' = Some(request'[1].url)
               /\ focus' = focus
               /\ focus = "Unfocused" =>
                     text' = normalize_url_for_display(request'[1].url)
               /\ focus # "Unfocused" => text' = text
          ELSE UNCHANGED <<text, cursor, focus, current_url>> ]_vars

\* The engine cancelled a main-frame request whose URL the unfocused field
\* now shows.
C33_Witness ==
    /\ entry.name = "load_web_resource"
    /\ request # None
    /\ request[1].is_for_main_frame
    /\ request[1].cancelled
    /\ focus = "Unfocused"
    /\ current_url = Some(request[1].url)
    /\ text = normalize_url_for_display(request[1].url)

\* ------------------------------------------------------------------------
\* C34
\* ------------------------------------------------------------------------
\* C34: the answer should_block gave to the last request is the one an
\* uncached check of the filter rules gives for the same url, source_url
\* and request_type.
C34_CacheNeverChangesAnswer ==
    (request # None /\ request[1].consulted) =>
        request[1].cancelled =
            check_network_request(adblock[1].rules, as_str(request[1].url),
                                  request[1].source_url,
                                  request[1].request_type)

\* ------------------------------------------------------------------------
\* C35
\* ------------------------------------------------------------------------
\* C35: a query adds the entry of its (url, source_url) pair to the cache
\* when there is none and changes no other entry; a query whose pair has an
\* entry is answered with it and leaves the cache as it is; a URL-change
\* notification leaves the cache empty; nothing else changes the cache.
C35_CacheEntries ==
    [][ adblock # None =>
          LET before == adblock[1].cache
              after == adblock'[1].cache
          IN  CASE entry'.name = "load_web_resource" /\ request'[1].consulted ->
                     LET key == <<as_str(request'[1].url), request'[1].source_url>>
                     IN  /\ DOMAIN after = DOMAIN before \cup {key}
                         /\ \A k \in DOMAIN before : after[k] = before[k]
                         /\ after[key] = request'[1].cancelled
                [] entry'.name = "notify_url_changed" -> DOMAIN after = {}
                [] OTHER -> after = before ]_vars

\* After a navigation the cache has grown to two entries, and the last
\* callback was a main-frame request following another set_url.
C35_Witness ==
    /\ adblock # None
    /\ page_url # None
    /\ entry.name = "load_web_resource"
    /\ Cardinality(DOMAIN adblock[1].cache) = 2
    /\ op = "set_url"
    /\ repeated

\* ------------------------------------------------------------------------
\* C38
\* ------------------------------------------------------------------------
\* The key events the property names.
IsCtrlL(ev) == ev.ctrl /\ ev.key \in {Character(Ch.l), Character(Ch.L)}

IsGlobalShortcut(ev) ==
    \/ IsCtrlL(ev)
    \/ ev.ctrl /\ ev.key \in {Character(Ch.r), Character(Ch.R)}
    \/ ev.key = Named("F5")
    \/ ev.alt /\ ev.key \in {Named("ArrowLeft"), Named("ArrowRight")}

\* C38: in every mode of the field, a pressed Ctrl+L, Ctrl+R, F5, Alt+Left
\* or Alt+Right leaves the text as it is and is not handed to the page;
\* Ctrl+L leaves the field focused with its text selected, the others leave
\* the cursor and the mode as they are.
C38_GlobalShortcuts ==
    [][ \A ev \in {e \in ShortcutEvents : IsGlobalShortcut(e)} :
          KeyboardInput(ev) =>
              /\ text' = text
              /\ forwarded' = "Nothing"
              /\ \A i \in DOMAIN calls' : calls'[i].call # "notify_input_event"
              /\ IF IsCtrlL(ev) THEN focus' = "Focused"
                 ELSE focus' = focus /\ cursor' = cursor ]_vars

\* Ctrl+L was pressed while the user was typing.
C38_Witness ==
    /\ entry.name = "KeyboardInput"
    /\ op = "focus"
    /\ pre.focus = "Editing"
    /\ focus = "Focused"
    /\ text # <<>>

\* ------------------------------------------------------------------------
\* C32
\* ------------------------------------------------------------------------
\* C32: a keyboard or mouse handler that changed the field called one of
\* its methods, and every handler that called a method of the field asked
\* for a redraw after it.
C32_RedrawAfterMutation ==
    [][ entry'.name \in {"KeyboardInput", "MouseInput"} =>
          /\ <<text, cursor, focus, current_url>>'
                 # <<text, cursor, focus, current_url>>
               => \E i \in DOMAIN calls' : calls'[i].call = "urlbar"
          /\ \A i \in DOMAIN calls' :
                calls'[i].call = "urlbar" =>
                    \E j \in DOMAIN calls' :
                        j > i /\ calls'[j].call = "request_redraw" ]_vars

\* A press in the page took the focus away from the field.
C32_Witness ==
    /\ entry.name = "MouseInput"
    /\ op = "unfocus"
    /\ pre.focus # "Unfocused"
    /\ focus = "Unfocused"
    /\ \E i \in DOMAIN calls : calls[i].call = "request_redraw"

\* ------------------------------------------------------------------------
\* C31
\* ------------------------------------------------------------------------
\* C31: every call into the engine the last handler made was made with no
\* borrow of the field alive; a delegate callback found the field free;
\* after notify_url_changed the field and the application hold the URL it
\* was given, and after a main-frame load_web_resource the field holds the
\* request URL.
C31_EngineCallsFindFieldFree ==
    /\ \A i \in DOMAIN calls :
          calls[i].call \in EngineCalls => calls[i].urlbar = "free"
    /\ entry.name \in {"notify_url_changed", "load_web_resource"}
          => entry.urlbar = "free"
    /\ entry.name = "notify_url_changed"
          => /\ op = "set_url"
             /\ arg_url # None
             /\ current_url = arg_url
             /\ page_url = arg_url
    /\ (entry.name = "load_web_resource" /\ request[1].is_for_main_frame)
          => current_url = Some(request[1].url)

\* The engine reported a new URL after Enter had loaded a destination.
C31_Witness ==
    /\ entry.name = "notify_url_changed"
    /\ \E i \in DOMAIN calls : calls[i] = Call("load", "free")
    /\ current_url # None
    /\ page_url = current_url

\* ------------------------------------------------------------------------
\* C39
\* ------------------------------------------------------------------------
\* C39: the phase changes only from Initial to Running and only in
\* resumed(), which then leaves a new field, a renderer that has drawn
\* nothing and no page URL; resumed() while Running makes no call and
\* leaves field, renderer and application as they are; while Initial every
\* other handler makes no call into the engine and leaves them as they are,
\* and no delegate callback runs.
C39_TwoPhases ==
    [][ /\ phase' # phase
             => /\ phase = "Initial" /\ phase' = "Running"
                /\ entry'.name = "resumed"
                /\ text' = <<>> /\ cursor' = 0 /\ focus' = "Unfocused"
                /\ current_url' = None /\ page_url' = None
                /\ gl' # None /\ frame' = None
        /\ (phase = "Initial" /\ entry'.name = "resumed") => phase' = "Running"
        /\ (phase = "Running" /\ entry'.name = "resumed")
             => /\ calls' = <<>>
                /\ UNCHANGED <<phase, text, cursor, focus, current_url, page_url,
                               adblock, request, gl, frame>>
        /\ (phase = "Initial" /\ entry'.name # "resumed")
             => /\ \A i \in DOMAIN calls' : calls'[i].call \notin EngineCalls
                /\ entry'.name \notin {"notify_url_changed", "load_web_resource"}
                /\ UNCHANGED <<phase, text, cursor, focus, current_url, page_url,
                               adblock, request, gl, frame>> ]_vars

\* resumed() was called again after the user had typed and a frame had been
\* drawn.
C39_Witness ==
    /\ phase = "Running"
    /\ entry.name = "resumed"
    /\ calls = <<>>
    /\ text # <<>>
    /\ focus = "Editing"
    /\ frame # None

====
